---------------------------- MODULE Spec2Model ----------------------------
(***************************************************************************)
(* Model of the shared-memory request/response protocol of the key-value   *)
(* foreign data wrapper.                                                    *)
(*                                                                         *)
(*  - src/src/kv_shm.c: one control block (SharedMem) with the semaphores  *)
(*    mutex, full, agent[0..1], worker, responseMutex[i], responseSync[i], *)
(*    a command area, RESPONSEQUEUELENGTH response buffers, the supervisor *)
(*    thread of the postmaster (KVStorageThreadFun / cleanup_handler), the *)
(*    worker process (KVWorkerMain) and the client stubs (XxxRequest).     *)
(*  - src/src/server/kv_worker.cc and src/src/kv_worker.cc: the receive    *)
(*    loop of class KVWorker (Run / Stop and the handlers).                *)
(*                                                                         *)
(* Semaphores are modelled without signal interruption: sem_wait returns   *)
(* only after it has decremented the semaphore.                            *)
(***************************************************************************)
EXTENDS Integers, Sequences, FiniteSets, TLC

\* ------------------------------------------------------------------ bounds
\* number of client (backend) processes
NClients == 3
\* total number of requests the clients start in one behaviour
MaxRequests == 3
\* number of response channels (the header that sets it is not in src/)
RESPONSEQUEUELENGTH == 2
\* number of relation ids
NumRels == 1

\* -------------------------------------------------------- program constants
\* size of the command area in bytes, scaled down
BUFSIZE == 30
\* bytes a PUT frame holds besides the key and the value:
\* FuncName(4) + responseId(4) + relationId(4) + keyLen(8) + valLen(8)
PutHeaderLen == 28
\* KVHashEntry.ref is a uint32.  TLC's integers are 32 bits wide, so
\* a uint32 is held as its two's complement reading: 0 .. 2147483647 stand
\* for themselves and -1 stands for 4294967295 (what ref-- makes of 0).
INT32MAX == 2147483647
Inc32(x) == IF x = INT32MAX THEN (-INT32MAX) - 1 ELSE x + 1
Dec32(x) == IF x = (-INT32MAX) - 1 THEN INT32MAX ELSE x - 1

Clients == 1 .. NClients
\* the supervisor thread of the postmaster, as a producer of TERMINATE
Sup == 0
Producers == Clients \cup {Sup}
Channels == 0 .. (RESPONSEQUEUELENGTH - 1)
Rels == 1 .. NumRels
None == "none"
\* "no producer", where a producer id is expected
NoProducer == Sup - 1

\* enum FuncName, as far as kv_shm.c builds it without VIDARDB
ClientFuncs == {"OPEN", "CLOSE", "COUNT", "GETITER", "DELITER", "NEXT",
                "GET", "PUT", "DELETE"}
\* functions whose stub reads the response buffer before releasing it
ReadingFuncs == {"COUNT", "NEXT", "GET"}
\* the key and value lengths PutRequest is called with
KeyLens == {1}
ValLens == {0, 1, 2}

VARIABLES
    \* ---- SharedMem (kv_shm.c)
    mutex, full, agent, worker, responseMutex, responseSync,
    workerProcessCreated,
    area,            \* ptr->area: [func, responseId, body, owner]
    ResponseQueue,   \* response buffers, one per channel
    \* ---- processes
    proc,            \* per producer: pc and the locals of the running call
    wpc, wcmd,       \* worker: position in KVWorkerMain, its copy of the command
    kvWorkerPid,     \* supervisor's global
    kvTableHash,     \* worker: relationId -> [found, ref, db (connection open)]
    kvIterHash,      \* worker: <<relationId, pid>> -> "absent" | "null" | "iter"
    \* ---- history (ghost) variables
    areaWriter,      \* producer whose command is in the area, not yet copied out
    nReq,            \* requests started
    nStarted,        \* worker processes forked
    writtenLog,      \* commands in the order their producers posted `worker`
    dispatchLog,     \* commands in the order the worker took them to dispatch
    signalLog,       \* channel ids in the order the worker posted responseSync
    acquireLog,      \* producers in the order they acquired the mutex
    teardown,        \* calls of Munmap, ShmUnlink and SemDestroy, by object
    \* ---- class KVWorker (server/kv_worker.cc, kv_worker.cc)
    variant,         \* which of the two files the worker is built from
    running, conn, ref,   \* running_, conn_ (is it non-null), ref_
    rpc,             \* position in KVWorkerDo / KVWorker::Run
    op,              \* msg.hdr.op of the message Run has in hand
    received,        \* history: opcodes in the order Run received them
    destroyed,       \* KVWorkerDo has deleted the worker object
    nOpenConn,       \* history: calls of OpenConn
    nCloseConn,      \* history: calls of CloseConn
    notes,           \* history: what the worker has notified the manager of
    key,             \* (pid, opid) key of the message being handled
    cursors,         \* cursors_: key -> iterator, NoIter if not registered
    nIter,           \* history: calls of GetIter; iterators are 1 .. nIter
    nDelIter,        \* history: calls of DelIter, by iterator
    atEnd,           \* storage engine: the iterator has no more records
    lastCursorOp,    \* history: last cursor message handled, by key
    reply,           \* the last response the worker sent
    ranges,          \* ranges_: the keys that are registered
    rqReads,         \* history: what RangeQueryRead returned, in order
    rqReplies,       \* history: the states RangeQuery sent, in order
    msgOpts,         \* the options the message being handled carries
    rangeEntry,      \* ranges_: the entry cached under each key
    entry,           \* RangeQuery's local `entry`
    nParse,          \* history: calls of ParseRangeQueryOptions
    rqHandles,       \* the range/read-options handles created so far
    segment,         \* the keys whose segment name exists
    fpc,             \* Put/Get/Delete exchange: whose turn it is
    call,            \* the arguments of the client's call
    request,         \* the message the client sent: op, etySize, ety
    decoded,         \* the PutArgs the worker read from the entity
    response,        \* the message the worker sent: status, etySize, ety
    callResult,      \* what the client's call returned
    store,           \* storage engine: the records of the relation
    model,           \* history: the records as the clients' calls left them
    bpc,             \* cursor calls of KVWorkerClient: position of the call
    bcall,           \* the call under way: its name and its cursor
    buf,             \* *args->buf of each cursor: a mapping, or null
    bufLen,          \* *args->bufLen of each cursor
    closed,          \* the cursors that CloseCursor/ClearRangeQuery ended
    nMaps,           \* history: the mappings Mmap has made
    unmaps,          \* history: calls of Munmap, by mapping
    bresp,           \* the response SendWithResponse delivered
    bret,            \* what the last call returned
    nBufCalls,       \* history: the calls made
    leftovers,       \* named segments: the names crashed processes left
    segs,            \* named segments: what each name refers to
    bound,           \* named segments: what each creation got
    segPc,           \* named segments: position of the thread and the worker
    segI,            \* InitResponseArea: i
    segKey,          \* the cursor key of the worker's handler
    segSize,         \* RangeQuery: state.size
    lastShm,         \* history: each process's last shm_unlink or shm_open
    nSegMsgs,        \* history: messages the worker has handled
    tdPc,            \* cleanup_handler's teardown: running, done or aborted
    tdI,             \* cleanup_handler's teardown: the next call
    tdLog,           \* history: the teardown calls made and how each ended
    lPc,             \* LaunchKVWorker: position of the caller
    lWorker,         \* LaunchKVWorker: the workerId argument
    lHandle,         \* LaunchKVWorker: the local handle
    lStatus,         \* LaunchKVWorker: the local status
    lAttempts,       \* history: registrations attempted by the current call
    lLog,            \* history: the launches that returned
    shVariant,       \* call shapes: which kv_worker.cc is compiled
    shPc,            \* call shapes: each client, idle or waiting for a response
    shChan,          \* call shapes: the response channel each client leased
    shLease,         \* call shapes: the lessee of each response channel
    shQueue,         \* call shapes: the messages sent and not yet received
    shRsp,           \* call shapes: the responses lying in each channel
    shRunning,       \* call shapes: the worker's running flag
    shHandled,       \* history: the opcodes handled, with and without answer
    nShCalls,        \* history: the stub calls made
    nIntr            \* history: the waits that a signal has interrupted

shmVars == <<mutex, full, agent, worker, responseMutex, responseSync,
             workerProcessCreated, area, ResponseQueue>>
procVars == <<proc, wpc, wcmd, kvWorkerPid, kvTableHash, kvIterHash>>
ghostVars == <<areaWriter, nReq, nStarted, writtenLog, dispatchLog, signalLog,
              acquireLog>>
connVars == <<destroyed, nOpenConn, nCloseConn, notes>>
curVars == <<key, cursors, nIter, nDelIter, atEnd, lastCursorOp, reply>>
rqVars == <<msgOpts, rangeEntry, entry, nParse, rqHandles, segment>>
rangeVars == <<ranges, rqReads, rqReplies, rqVars>>
exchVars == <<fpc, call, request, decoded, response, callResult, store, model>>
bufVars == <<bpc, bcall, buf, bufLen, closed, nMaps, unmaps, bresp, bret,
             nBufCalls>>
segVars == <<leftovers, segs, bound, segPc, segI, segKey, segSize, lastShm,
             nSegMsgs>>
tdVars == <<tdPc, tdI, tdLog>>
launchVars == <<lPc, lWorker, lHandle, lStatus, lAttempts, lLog>>
shapeVars == <<shVariant, shPc, shChan, shLease, shQueue, shRsp, shRunning,
               shHandled, nShCalls>>
intrVars == <<nIntr>>
auxVars == <<segVars, tdVars, launchVars, shapeVars, intrVars>>
frameVars == <<exchVars, bufVars, auxVars>>
runVars == <<variant, running, conn, ref, rpc, op, received, connVars,
             curVars, rangeVars>>
shmAll == <<shmVars, procVars, ghostVars, teardown>>
vars == <<shmVars, procVars, ghostVars, teardown, runVars, frameVars>>

\* ------------------------------------------------------------- semaphores
\* sem_wait returns once the value is positive, and decrements it
SemCanWait(s) == s > 0
SemWait(s) == s - 1
SemPost(s) == s + 1
\* fault variant of SemTryWait: reports success whatever the value
SemTryWaitAlwaysZero(s) == 0
\* sem_trywait: 0 and a decrement when positive, -1 (EAGAIN) otherwise
SemTryWait(s) == IF s > 0 THEN 0 ELSE -1
SemAfterTryWait(s) == IF s > 0 THEN s - 1 ELSE s

\* ------------------------------------------------------------------- Init
\* the op-specific part of a frame; fields an op does not write are 0
Body(f, r, p, kl, vl) ==
    [relationId |-> r,
     pid |-> IF f \in {"GETITER", "DELITER", "NEXT"} THEN p ELSE 0,
     keyLen |-> IF f \in {"GET", "PUT", "DELETE"} THEN kl ELSE 0,
     valLen |-> IF f = "PUT" THEN vl ELSE 0]
NoBody == Body(None, 0, 0, 0, 0)
\* the relation ids and pids that the bytes of the command area can spell:
\* those the clients write, and the 0 of an area not written yet (the hash
\* tables find nothing under them unless a command put it there)
AreaRels == Rels \cup {0}
AreaPids == Clients \cup {0}

EmptyArea == [func |-> None, responseId |-> 0, body |-> NoBody, owner |-> NoProducer]
EmptyResponse == [owner |-> NoProducer, func |-> None, data |-> 0]
NoEntry == [found |-> FALSE, ref |-> 0, db |-> FALSE]
IdleProc == [pc |-> "idle", func |-> None, responseId |-> 0,
             i |-> 0, ptr |-> FALSE, body |-> NoBody, ret |-> 0]

\* a call returns: its locals are gone, the caller keeps the result (-1
\* stands for ereport(ERROR)) and its SharedMem pointer
Returned(pr, result) == [IdleProc EXCEPT !.ptr = pr.ptr, !.ret = result]

\* nothing has been unmapped, unlinked or destroyed
NoTeardown ==
    [unmapped |-> [i \in Channels |-> 0],
     unlinked |-> [i \in Channels |-> 0],
     mutex |-> 0, full |-> 0, agent |-> [k \in 0 .. 1 |-> 0], worker |-> 0,
     responseMutex |-> [i \in Channels |-> 0],
     responseSync |-> [i \in Channels |-> 0],
     ctlUnmapped |-> 0, ctlUnlinked |-> 0]

\* the control block after InitResponseArea / SemInit, no process started
ShmInit ==
    /\ mutex = 1
    /\ full = 1
    /\ agent = [k \in 0 .. 1 |-> 0]
    /\ worker = 0
    /\ responseMutex = [i \in Channels |-> 1]
    /\ responseSync = [i \in Channels |-> 0]
    /\ workerProcessCreated = FALSE
    /\ area = EmptyArea
    /\ ResponseQueue = [i \in Channels |-> EmptyResponse]
    /\ proc = [p \in Producers |->
                 IF p = Sup THEN [IdleProc EXCEPT !.pc = "s_wait", !.ptr = TRUE]
                 ELSE IdleProc]
    /\ wpc = "none"
    /\ wcmd = EmptyArea
    /\ kvWorkerPid = 0
    /\ kvTableHash = [r \in AreaRels |-> NoEntry]
    /\ kvIterHash = [k \in AreaRels \X AreaPids |-> "absent"]
    /\ areaWriter = NoProducer
    /\ nReq = 0
    /\ nStarted = 0
    /\ writtenLog = <<>>
    /\ dispatchLog = <<>>
    /\ signalLog = <<>>
    /\ acquireLog = <<>>
    /\ teardown = NoTeardown

\* bounds: messages the worker's queue delivers in one behaviour, without
\* and with messages that carry a key; (pid, opid) keys clients use; calls of RangeQueryRead in one behaviour; bytes of a
\* batch
MaxMsgs == 4
MaxKeyedMsgs == 5
NumKeys == 2
MaxReads == 4
MaxSize == 1

Keys == 1 .. NumKeys
NoKey == 0
IterIds == 1 .. MaxKeyedMsgs
NoIter == 0
\* the option sets a RangeQuery message may carry; a ClearRangeQuery message
\* carries none
NumOpts == 2
Opts == 1 .. NumOpts
NoOpts == 0
\* the handle pairs ParseRangeQueryOptions has created, in order of creation
HandleIds == 1 .. MaxKeyedMsgs
NoHandle == 0
NoHandleRec == [key |-> NoKey, opts |-> NoOpts, cleared |-> 0]
NoReply == [op |-> None, key |-> NoKey, status |-> None, next |-> FALSE,
            size |-> 0]

\* bounds of the Put/Get exchange: bytes of a key and of a value, longest
\* key, longest value
KeyByteMax == 0
ValByteMax == 1
MaxKeyLen == 2
MaxValLen == 2

SeqsUpTo(S, lo, hi) == UNION {[1 .. n -> S] : n \in lo .. hi}
KeySet == SeqsUpTo(0 .. KeyByteMax, 1, MaxKeyLen)
ValSet == SeqsUpTo(0 .. ValByteMax, 0, MaxValLen)

NoRecord == [present |-> FALSE, val |-> <<>>]
NoCall == [op |-> None, key |-> <<>>, val |-> <<>>]
NoMessage == [op |-> None, status |-> None, etySize |-> 0, ety |-> <<>>]
NoArgs == [keyLen |-> 0, key |-> <<>>, valLen |-> 0, val |-> <<>>]
NoResult == [op |-> None, ok |-> FALSE, valLen |-> 0, val |-> <<>>]

\* bounds of the cursor calls: calls made, and with them mappings
MaxBufCalls == 4
MapIds == 1 .. MaxBufCalls
\* nullptr
NoMap == 0
\* a cursor of ReadBatch/CloseCursor and one of RangeQuery/ClearRangeQuery
CursorKinds == {"ReadBatch", "RangeQuery"}
NoBufCall == [name |-> None, cursor |-> None]
NoState == [status |-> None, next |-> FALSE, size |-> 0]

\* the caller's arguments before the first call: *buf = nullptr, *bufLen = 0
BufOff ==
    /\ bpc = "idle"
    /\ bcall = NoBufCall
    /\ buf = [c \in CursorKinds |-> NoMap]
    /\ bufLen = [c \in CursorKinds |-> 0]
    /\ closed = [c \in CursorKinds |-> FALSE]
    /\ nMaps = 0
    /\ unmaps = [m \in MapIds |-> 0]
    /\ bresp = NoState
    /\ bret = FALSE
    /\ nBufCalls = 0

\* the names of the shared segments: BACKFILE, RESPONSEFILE i, and for a
\* cursor key READBATCHPATH pid relId opid and RANGEQUERYPATH pid relId opid
SegNames == ({"ctl"} \X {0}) \cup ({"rsp"} \X (0 .. RESPONSEQUEUELENGTH - 1))
               \cup ({"rb", "rq"} \X Keys)
\* the processes that create segments: the storage thread of kv_shm.c and
\* the worker of server/kv_worker.cc; the client unlinks and opens
SegProcs == {"thread", "worker", "client"}
NoShmCall == [call |-> None, name |-> <<None, 0>>]
\* messages the worker handles
MaxSegMsgs == 2

\* nothing is left over and no segment is being created
SegOff ==
    /\ leftovers = {}
    /\ segs = [n \in SegNames |-> "absent"]
    /\ bound = [n \in SegNames |-> None]
    /\ segPc = [p \in SegProcs |-> "off"]
    /\ segI = 0
    /\ segKey = NoKey
    /\ segSize = 0
    /\ lastShm = [p \in SegProcs |-> NoShmCall]
    /\ nSegMsgs = 0

\* cleanup_handler has not been called
TdOff ==
    /\ tdPc = "off"
    /\ tdI = 1
    /\ tdLog = <<>>

\* nullptr, where a BackgroundWorkerHandle* is expected
nullptr == 0
\* nobody has called LaunchKVWorker
LaunchOff ==
    /\ lPc = "idle"
    /\ lWorker = None
    /\ lHandle = nullptr
    /\ lStatus = None
    /\ lAttempts = 0
    /\ lLog = <<>>

ShClients == 1 .. 2
NoClient == 0

\* no stub has been called; the variant is the server one
ShapeIdle ==
    /\ shPc = [c \in ShClients |-> "idle"]
    /\ shChan = [c \in ShClients |-> 0]
    /\ shLease = [i \in Channels |-> NoClient]
    /\ shQueue = <<>>
    /\ shRsp = [i \in Channels |-> {}]
    /\ shRunning = TRUE
    /\ shHandled = {}
    /\ nShCalls = 0

ShapeOff == shVariant = "server" /\ ShapeIdle

\* no wait has been interrupted
IntrOff == nIntr = 0

AuxOff == SegOff /\ TdOff /\ LaunchOff /\ ShapeOff /\ IntrOff

\* no call is under way and the relation is empty
FrameOff ==
    /\ BufOff
    /\ fpc = "idle"
    /\ call = NoCall
    /\ request = NoMessage
    /\ decoded = NoArgs
    /\ response = NoMessage
    /\ callResult = NoResult
    /\ store = [k \in KeySet |-> NoRecord]
    /\ model = [k \in KeySet |-> NoRecord]

\* std::unordered_map cursors_ and ranges_ are empty after construction
CurOff ==
    /\ key = NoKey
    /\ cursors = [k \in Keys |-> NoIter]
    /\ nIter = 0
    /\ nDelIter = [i \in IterIds |-> 0]
    /\ atEnd = [i \in IterIds |-> FALSE]
    /\ lastCursorOp = [k \in Keys |-> None]
    /\ reply = NoReply
    /\ ranges = [k \in Keys |-> FALSE]
    /\ rqReads = <<>>
    /\ rqReplies = <<>>
    /\ msgOpts = NoOpts
    /\ rangeEntry = [k \in Keys |-> NoHandle]
    /\ entry = NoHandle
    /\ nParse = 0
    /\ rqHandles = [h \in HandleIds |-> NoHandleRec]
    /\ segment = [k \in Keys |-> FALSE]

\* no KVWorker object exists
RunOff ==
    /\ variant = None
    /\ running = FALSE
    /\ conn = FALSE
    /\ ref = 0
    /\ rpc = "off"
    /\ op = None
    /\ received = <<>>
    /\ destroyed = FALSE
    /\ nOpenConn = 0
    /\ nCloseConn = 0
    /\ notes = <<>>
    /\ CurOff
    /\ FrameOff

Init == ShmInit /\ RunOff /\ AuxOff


\* ------------------------------------------------------- client requests

\* PutRequest's length test: current + valLen - ptr->area > BUFSIZE
PutTooLong(b) == PutHeaderLen + b.keyLen + b.valLen > BUFSIZE

\* a backend enters one of the XxxRequest functions and reaches SemWait(mutex)
StartRequest(c) ==
    /\ proc[c].pc = "idle"
    /\ nReq < MaxRequests
    /\ nReq' = nReq + 1
    /\ proc' = [proc EXCEPT ![c].pc = "mutex", ![c].ret = 0]
    /\ UNCHANGED <<shmVars, wpc, wcmd, kvWorkerPid, kvTableHash, kvIterHash,
                   areaWriter, nStarted, writtenLog, dispatchLog, signalLog,
                   acquireLog>>
    /\ UNCHANGED <<runVars, frameVars, teardown>>

\* SemWait(&ptr->mutex).  The arguments of the call are private to the caller
\* until it owns the mutex, so they are drawn here.  Only OpenRequest can be
\* called without a SharedMem pointer; OpenRequest then tests
\* workerProcessCreated.
AcquireMutex(c) ==
    /\ proc[c].pc = "mutex"
    /\ SemCanWait(mutex)
    /\ mutex' = SemWait(mutex)
    /\ \E f \in ClientFuncs, r \in Rels, kl \in KeyLens, vl \in ValLens :
          /\ proc[c].ptr \/ f = "OPEN"
          /\ f # "PUT" => vl = 0
          /\ proc' = [proc EXCEPT
                ![c].func = f,
                ![c].body = Body(f, r, c, kl, vl),
                ![c].pc = IF f = "OPEN" /\ ~workerProcessCreated
                          THEN "agent_post" ELSE "full"]
    /\ acquireLog' = Append(acquireLog, c)
    /\ UNCHANGED <<full, agent, worker, responseMutex, responseSync,
                   workerProcessCreated, area, ResponseQueue, wpc, wcmd,
                   kvWorkerPid, kvTableHash, kvIterHash, areaWriter, nReq,
                   nStarted, writtenLog, dispatchLog, signalLog>>
    /\ UNCHANGED <<runVars, frameVars, teardown>>

\* OpenRequest: SemPost(&ptr->agent[0])
AgentPost(c) ==
    /\ proc[c].pc = "agent_post"
    /\ agent' = [agent EXCEPT ![0] = SemPost(agent[0])]
    /\ proc' = [proc EXCEPT ![c].pc = "agent_wait"]
    /\ UNCHANGED <<mutex, full, worker, responseMutex, responseSync,
                   workerProcessCreated, area, ResponseQueue, wpc, wcmd,
                   kvWorkerPid, kvTableHash, kvIterHash, ghostVars>>
    /\ UNCHANGED <<runVars, frameVars, teardown>>

\* OpenRequest: SemWait(&ptr->agent[1])
AgentWait(c) ==
    /\ proc[c].pc = "agent_wait"
    /\ SemCanWait(agent[1])
    /\ agent' = [agent EXCEPT ![1] = SemWait(agent[1])]
    /\ proc' = [proc EXCEPT ![c].pc = "full"]
    /\ UNCHANGED <<mutex, full, worker, responseMutex, responseSync,
                   workerProcessCreated, area, ResponseQueue, wpc, wcmd,
                   kvWorkerPid, kvTableHash, kvIterHash, ghostVars>>
    /\ UNCHANGED <<runVars, frameVars, teardown>>

\* fault variant of WaitFull: the producer goes on to write the area without
\* waiting for `full`
WaitFullNoWait(p) ==
    /\ proc[p].pc = "full"
    /\ proc' = [proc EXCEPT ![p].pc = "write_func"]
    /\ UNCHANGED <<shmVars, wpc, wcmd, kvWorkerPid, kvTableHash, kvIterHash,
                   ghostVars>>
    /\ UNCHANGED <<runVars, frameVars, teardown>>

\* SemWait(&ptr->full)
WaitFull(p) ==
    /\ proc[p].pc = "full"
    /\ SemCanWait(full)
    /\ full' = SemWait(full)
    /\ proc' = [proc EXCEPT ![p].pc = "write_func"]
    /\ UNCHANGED <<mutex, agent, worker, responseMutex, responseSync,
                   workerProcessCreated, area, ResponseQueue, wpc, wcmd,
                   kvWorkerPid, kvTableHash, kvIterHash, ghostVars>>
    /\ UNCHANGED <<runVars, frameVars, teardown>>

\* memcpy(ptr->area, &func, sizeof(FuncName))
WriteFunc(p) ==
    /\ proc[p].pc = "write_func"
    /\ area' = [area EXCEPT !.func = proc[p].func, !.owner = p]
    /\ areaWriter' = p
    /\ proc' = [proc EXCEPT ![p].pc = "lease", ![p].i = 0]
    /\ UNCHANGED <<mutex, full, agent, worker, responseMutex, responseSync,
                   workerProcessCreated, ResponseQueue, wpc, wcmd,
                   kvWorkerPid, kvTableHash, kvIterHash,
                   nReq, nStarted, writtenLog, dispatchLog, signalLog,
                   acquireLog>>
    /\ UNCHANGED <<runVars, frameVars, teardown>>

\* GetResponseQueueIndex: one SemTryWait(&ptr->responseMutex[i]) of the scan
LeaseTry(p) ==
    /\ proc[p].pc = "lease"
    /\ LET i == proc[p].i IN
       /\ responseMutex' = [responseMutex EXCEPT ![i] = SemAfterTryWait(@)]
       /\ proc' = IF SemTryWait(responseMutex[i]) = 0
                  THEN [proc EXCEPT ![p].responseId = i, ![p].pc = "write_body"]
                  ELSE [proc EXCEPT ![p].i = (i + 1) % RESPONSEQUEUELENGTH]
    /\ UNCHANGED <<mutex, full, agent, worker, responseSync,
                   workerProcessCreated, area, ResponseQueue, wpc, wcmd,
                   kvWorkerPid, kvTableHash, kvIterHash, ghostVars>>
    /\ UNCHANGED <<runVars, frameVars, teardown>>

\* the memcpys of responseId and of the op's arguments into ptr->area;
\* PutRequest then tests the frame length
WriteBody(c) ==
    /\ proc[c].pc = "write_body"
    /\ area' = [area EXCEPT !.responseId = proc[c].responseId,
                            !.body = proc[c].body]
    /\ proc' = [proc EXCEPT ![c].pc =
                  IF proc[c].func = "PUT" /\ PutTooLong(proc[c].body)
                  THEN "put_err_mutex" ELSE "post_worker"]
    /\ UNCHANGED <<mutex, full, agent, worker, responseMutex, responseSync,
                   workerProcessCreated, ResponseQueue, wpc, wcmd,
                   kvWorkerPid, kvTableHash, kvIterHash, ghostVars>>
    /\ UNCHANGED <<runVars, frameVars, teardown>>

\* PutRequest, tuple too long: SemPost(&ptr->mutex).  The call produces no
\* command, so the history forgets that it acquired the mutex.
PutErrMutex(c) ==
    /\ proc[c].pc = "put_err_mutex"
    /\ mutex' = SemPost(mutex)
    /\ proc' = [proc EXCEPT ![c].pc = "put_err_release"]
    /\ acquireLog' = SubSeq(acquireLog, 1, Len(acquireLog) - 1)
    /\ UNCHANGED <<full, agent, worker, responseMutex, responseSync,
                   workerProcessCreated, area, ResponseQueue, wpc, wcmd,
                   kvWorkerPid, kvTableHash, kvIterHash, areaWriter, nReq,
                   nStarted, writtenLog, dispatchLog, signalLog>>
    /\ UNCHANGED <<runVars, frameVars, teardown>>

\* PutRequest, tuple too long: SemPost(&ptr->responseMutex[responseId]) and
\* ereport(ERROR)
PutErrRelease(c) ==
    /\ proc[c].pc = "put_err_release"
    /\ responseMutex' = [responseMutex EXCEPT
                            ![proc[c].responseId] = SemPost(@)]
    /\ proc' = [proc EXCEPT ![c] = Returned(proc[c], -1)]
    /\ UNCHANGED <<mutex, full, agent, worker, responseSync,
                   workerProcessCreated, area, ResponseQueue, wpc, wcmd,
                   kvWorkerPid, kvTableHash, kvIterHash, ghostVars>>
    /\ UNCHANGED <<runVars, frameVars, teardown>>

\* the command a producer has put into the area
Command(p) == [owner |-> p, func |-> proc[p].func,
               responseId |-> proc[p].responseId, body |-> proc[p].body]

\* fault variant of PostWorker: `worker` is posted twice for one command
PostWorkerTwice(c) ==
    /\ proc[c].pc = "post_worker"
    /\ worker' = SemPost(SemPost(worker))
    /\ writtenLog' = Append(writtenLog, Command(c))
    /\ proc' = [proc EXCEPT ![c].pc = "post_mutex"]
    /\ UNCHANGED <<mutex, full, agent, responseMutex, responseSync,
                   workerProcessCreated, area, ResponseQueue, wpc, wcmd,
                   kvWorkerPid, kvTableHash, kvIterHash,
                   areaWriter, nReq, nStarted, dispatchLog, signalLog,
                   acquireLog>>
    /\ UNCHANGED <<runVars, frameVars, teardown>>

\* SemPost(&ptr->worker)
PostWorker(c) ==
    /\ proc[c].pc = "post_worker"
    /\ worker' = SemPost(worker)
    /\ writtenLog' = Append(writtenLog, Command(c))
    /\ proc' = [proc EXCEPT ![c].pc = "post_mutex"]
    /\ UNCHANGED <<mutex, full, agent, responseMutex, responseSync,
                   workerProcessCreated, area, ResponseQueue, wpc, wcmd,
                   kvWorkerPid, kvTableHash, kvIterHash,
                   areaWriter, nReq, nStarted, dispatchLog, signalLog,
                   acquireLog>>
    /\ UNCHANGED <<runVars, frameVars, teardown>>

\* fault variant of PostMutex: the mutex is posted a second time
PostMutexTwice(c) ==
    /\ proc[c].pc = "post_mutex"
    /\ mutex' = SemPost(SemPost(mutex))
    /\ proc' = [proc EXCEPT ![c].pc = "wait_resp"]
    /\ UNCHANGED <<full, agent, worker, responseMutex, responseSync,
                   workerProcessCreated, area, ResponseQueue, wpc, wcmd,
                   kvWorkerPid, kvTableHash, kvIterHash, ghostVars>>
    /\ UNCHANGED <<runVars, frameVars, teardown>>

\* SemPost(&ptr->mutex)
PostMutex(c) ==
    /\ proc[c].pc = "post_mutex"
    /\ mutex' = SemPost(mutex)
    /\ proc' = [proc EXCEPT ![c].pc = "wait_resp"]
    /\ UNCHANGED <<full, agent, worker, responseMutex, responseSync,
                   workerProcessCreated, area, ResponseQueue, wpc, wcmd,
                   kvWorkerPid, kvTableHash, kvIterHash, ghostVars>>
    /\ UNCHANGED <<runVars, frameVars, teardown>>

\* fault variant of WaitResp: a wait that gives up when the semaphore is 0
WaitRespTimedOut(c) ==
    /\ proc[c].pc = "wait_resp"
    /\ responseSync' = [responseSync EXCEPT ![proc[c].responseId] =
                           IF SemCanWait(@) THEN SemWait(@) ELSE @]
    /\ proc' = [proc EXCEPT ![c].pc =
                  IF proc[c].func \in ReadingFuncs THEN "read_resp"
                  ELSE "release"]
    /\ UNCHANGED <<mutex, full, agent, worker, responseMutex,
                   workerProcessCreated, area, ResponseQueue, wpc, wcmd,
                   kvWorkerPid, kvTableHash, kvIterHash, ghostVars>>
    /\ UNCHANGED <<runVars, frameVars, teardown>>

\* SemWait(&ptr->responseSync[responseId])
WaitResp(c) ==
    /\ proc[c].pc = "wait_resp"
    /\ SemCanWait(responseSync[proc[c].responseId])
    /\ responseSync' = [responseSync EXCEPT ![proc[c].responseId] = SemWait(@)]
    /\ proc' = [proc EXCEPT ![c].pc =
                  IF proc[c].func \in ReadingFuncs THEN "read_resp"
                  ELSE "release"]
    /\ UNCHANGED <<mutex, full, agent, worker, responseMutex,
                   workerProcessCreated, area, ResponseQueue, wpc, wcmd,
                   kvWorkerPid, kvTableHash, kvIterHash, ghostVars>>
    /\ UNCHANGED <<runVars, frameVars, teardown>>

\* CountRequest / NextRequest / GetRequest: copy the result out of
\* ResponseQueue[responseId]
ReadResp(c) ==
    /\ proc[c].pc = "read_resp"
    /\ proc' = [proc EXCEPT ![c].ret = ResponseQueue[proc[c].responseId].data,
                            ![c].pc = "release"]
    /\ UNCHANGED <<shmVars, wpc, wcmd, kvWorkerPid, kvTableHash, kvIterHash,
                   ghostVars>>
    /\ UNCHANGED <<runVars, frameVars, teardown>>

\* fault variant of Release: the "nothing found" return path keeps the lease
ReleaseFoundOnly(c) ==
    /\ proc[c].pc = "release"
    /\ responseMutex' = [responseMutex EXCEPT
                            ![proc[c].responseId] =
                               IF proc[c].func \in ReadingFuncs /\
                                  proc[c].ret = 0
                               THEN @ ELSE SemPost(@)]
    /\ proc' = [proc EXCEPT ![c] =
                  [Returned(proc[c], IF proc[c].func \in ReadingFuncs
                                     THEN proc[c].ret ELSE 1)
                   EXCEPT !.ptr = TRUE]]
    /\ UNCHANGED <<mutex, full, agent, worker, responseSync,
                   workerProcessCreated, area, ResponseQueue, wpc, wcmd,
                   kvWorkerPid, kvTableHash, kvIterHash, ghostVars>>
    /\ UNCHANGED <<runVars, frameVars, teardown>>

\* SemPost(&ptr->responseMutex[responseId]) and return
Release(c) ==
    /\ proc[c].pc = "release"
    /\ responseMutex' = [responseMutex EXCEPT
                            ![proc[c].responseId] = SemPost(@)]
    /\ proc' = [proc EXCEPT ![c] =
                  [Returned(proc[c], IF proc[c].func \in ReadingFuncs
                                     THEN proc[c].ret ELSE 1)
                   EXCEPT !.ptr = TRUE]]
    /\ UNCHANGED <<mutex, full, agent, worker, responseSync,
                   workerProcessCreated, area, ResponseQueue, wpc, wcmd,
                   kvWorkerPid, kvTableHash, kvIterHash, ghostVars>>
    /\ UNCHANGED <<runVars, frameVars, teardown>>


\* ------------------------------------------------------ worker (KVWorkerMain)
\* SemWait(&ptr->worker)
WorkerWait ==
    /\ wpc = "wait"
    /\ SemCanWait(worker)
    /\ worker' = SemWait(worker)
    /\ wpc' = "copy"
    /\ UNCHANGED <<mutex, full, agent, responseMutex, responseSync,
                   workerProcessCreated, area, ResponseQueue, proc, wcmd,
                   kvWorkerPid, kvTableHash, kvIterHash, ghostVars>>
    /\ UNCHANGED <<runVars, frameVars, teardown>>

\* the memcpys of func, responseId and the rest of ptr->area into locals
WorkerCopy ==
    /\ wpc = "copy"
    /\ wcmd' = area
    /\ wpc' = "post_full"
    /\ UNCHANGED <<shmVars, proc, kvWorkerPid, kvTableHash, kvIterHash,
                   ghostVars>>
    /\ UNCHANGED <<runVars, frameVars, teardown>>

\* SemPost(&ptr->full)
WorkerPostFull ==
    /\ wpc = "post_full"
    /\ full' = SemPost(full)
    /\ areaWriter' = NoProducer
    /\ wpc' = "dispatch"
    /\ UNCHANGED <<mutex, agent, worker, responseMutex, responseSync,
                   workerProcessCreated, area, ResponseQueue, proc, wcmd,
                   kvWorkerPid, kvTableHash, kvIterHash,
                   nReq, nStarted, writtenLog, dispatchLog, signalLog,
                   acquireLog>>
    /\ UNCHANGED <<runVars, frameVars, teardown>>

\* the worker's copy, as a command
Consumed == [owner |-> wcmd.owner, func |-> wcmd.func,
             responseId |-> wcmd.responseId, body |-> wcmd.body]

\* fault variant of WorkerTerminate: the loop is left without the post
WorkerTerminateNoSignal ==
    /\ wpc = "dispatch"
    /\ wcmd.func = "TERMINATE"
    /\ dispatchLog' = Append(dispatchLog, Consumed)
    /\ wpc' = "closing"
    /\ UNCHANGED <<shmVars, proc, wcmd, kvWorkerPid, kvTableHash, kvIterHash,
                   areaWriter, nReq, nStarted, writtenLog, signalLog,
                   acquireLog>>
    /\ UNCHANGED <<runVars, frameVars, teardown>>

\* if (func == TERMINATE) { SemPost(&ptr->responseSync[responseId]); break; }
WorkerTerminate ==
    /\ wpc = "dispatch"
    /\ wcmd.func = "TERMINATE"
    /\ responseSync' = [responseSync EXCEPT ![wcmd.responseId] = SemPost(@)]
    /\ signalLog' = Append(signalLog, wcmd.responseId)
    /\ dispatchLog' = Append(dispatchLog, Consumed)
    /\ wpc' = "closing"
    /\ UNCHANGED <<mutex, full, agent, worker, responseMutex,
                   workerProcessCreated, area, ResponseQueue, proc, wcmd,
                   kvWorkerPid, kvTableHash, kvIterHash,
                   areaWriter, nReq, nStarted, writtenLog, acquireLog>>
    /\ UNCHANGED <<runVars, frameVars, teardown>>

\* The XxxResponse handlers.  sr is what the storage engine answers: Count's
\* number (0 or 1), Next's and Get's "found", Put's and Delete's "done".
\* The result is [ok, table, iters, write, data]: ok is FALSE when the
\* handler ends in ereport(ERROR); write says whether the handler stored
\* data into ResponseQueue[responseId].
Unchanged(ok) == [ok |-> ok, table |-> kvTableHash, iters |-> kvIterHash,
                  write |-> FALSE, data |-> 0]

OpenResponse(b) ==
    LET e == kvTableHash[b.relationId] IN
    [Unchanged(TRUE) EXCEPT !.table =
        [kvTableHash EXCEPT ![b.relationId] =
            IF ~e.found THEN [found |-> TRUE, ref |-> 1, db |-> TRUE]
            ELSE [e EXCEPT !.ref = Inc32(e.ref)]]]

CloseResponse(b) ==
    LET e == kvTableHash[b.relationId] IN
    IF ~e.found THEN Unchanged(FALSE)
    ELSE [Unchanged(TRUE) EXCEPT !.table =
            [kvTableHash EXCEPT ![b.relationId].ref = Dec32(e.ref)]]

CountResponse(b, sr) ==
    IF ~kvTableHash[b.relationId].found THEN Unchanged(FALSE)
    ELSE [Unchanged(TRUE) EXCEPT !.write = TRUE,
                                 !.data = IF sr THEN 1 ELSE 0]

GetIterResponse(b) ==
    IF ~kvTableHash[b.relationId].found THEN Unchanged(FALSE)
    ELSE [Unchanged(TRUE) EXCEPT !.iters =
            [kvIterHash EXCEPT ![<<b.relationId, b.pid>>] = "iter"]]

DelIterResponse(b) ==
    IF kvIterHash[<<b.relationId, b.pid>>] = "absent" THEN Unchanged(FALSE)
    ELSE [Unchanged(TRUE) EXCEPT !.iters =
            [kvIterHash EXCEPT ![<<b.relationId, b.pid>>] = "null"]]

\* (Next() on a NULL iterator is undefined in the storage engine: see
\* NextOnNull and WorkerDispatch)
NextResponse(b, sr) ==
    IF ~kvTableHash[b.relationId].found THEN Unchanged(FALSE)
    ELSE IF kvIterHash[<<b.relationId, b.pid>>] = "absent" THEN Unchanged(FALSE)
    ELSE [Unchanged(TRUE) EXCEPT !.write = TRUE,
                                 !.data = IF sr THEN b.pid ELSE 0]

GetResponse(b, sr) ==
    IF ~kvTableHash[b.relationId].found THEN Unchanged(FALSE)
    ELSE [Unchanged(TRUE) EXCEPT !.write = TRUE,
                                 !.data = IF sr THEN 1 ELSE 0]

PutResponse(b, sr) ==
    IF ~kvTableHash[b.relationId].found THEN Unchanged(FALSE)
    ELSE Unchanged(sr)

DeleteResponse(b, sr) ==
    IF ~kvTableHash[b.relationId].found THEN Unchanged(FALSE)
    ELSE Unchanged(sr)

\* switch (func) of KVWorkerMain
Handler(cmd, sr) ==
    CASE cmd.func = "OPEN" -> OpenResponse(cmd.body)
      [] cmd.func = "CLOSE" -> CloseResponse(cmd.body)
      [] cmd.func = "COUNT" -> CountResponse(cmd.body, sr)
      [] cmd.func = "GETITER" -> GetIterResponse(cmd.body)
      [] cmd.func = "DELITER" -> DelIterResponse(cmd.body)
      [] cmd.func = "NEXT" -> NextResponse(cmd.body, sr)
      [] cmd.func = "GET" -> GetResponse(cmd.body, sr)
      [] cmd.func = "PUT" -> PutResponse(cmd.body, sr)
      [] cmd.func = "DELETE" -> DeleteResponse(cmd.body, sr)
      [] OTHER -> Unchanged(FALSE)

\* the functions whose handler asks the storage engine for an answer
AsksStorage(f) == f \in {"COUNT", "NEXT", "GET", "PUT", "DELETE"}

\* NextResponse hands the storage engine an iterator that DelIterResponse
\* has set to NULL: undefined behaviour, the worker may crash or go on
NextOnNull(cmd) ==
    /\ cmd.func = "NEXT"
    /\ kvTableHash[cmd.body.relationId].found
    /\ kvIterHash[<<cmd.body.relationId, cmd.body.pid>>] = "null"

\* fault variant of WorkerDispatch: the handler writes the next channel's
\* buffer
WorkerDispatchNextChannel ==
    /\ wpc = "dispatch"
    /\ wcmd.func # "TERMINATE"
    /\ \E sr \in BOOLEAN, crash \in BOOLEAN :
          /\ ~AsksStorage(wcmd.func) => sr
          /\ crash => NextOnNull(wcmd)
          /\ LET h == Handler(wcmd, sr) IN
             /\ kvTableHash' = h.table
             /\ kvIterHash' = h.iters
             /\ ResponseQueue' =
                  IF h.write
                  THEN [ResponseQueue EXCEPT ![(wcmd.responseId + 1)
                                               % RESPONSEQUEUELENGTH] =
                          [owner |-> wcmd.owner, func |-> wcmd.func,
                           data |-> h.data]]
                  ELSE ResponseQueue
             /\ wpc' = IF h.ok /\ ~crash THEN "signal" ELSE "dead"
    /\ dispatchLog' = Append(dispatchLog, Consumed)
    /\ UNCHANGED <<mutex, full, agent, worker, responseMutex, responseSync,
                   workerProcessCreated, area, proc, wcmd, kvWorkerPid,
                   areaWriter, nReq, nStarted, writtenLog, signalLog,
                   acquireLog>>
    /\ UNCHANGED <<runVars, frameVars, teardown>>

\* the switch and the handler it calls; ereport(ERROR) ends the worker process
WorkerDispatch ==
    /\ wpc = "dispatch"
    /\ wcmd.func # "TERMINATE"
    /\ \E sr \in BOOLEAN, crash \in BOOLEAN :
          /\ ~AsksStorage(wcmd.func) => sr
          /\ crash => NextOnNull(wcmd)
          /\ LET h == Handler(wcmd, sr) IN
             /\ kvTableHash' = h.table
             /\ kvIterHash' = h.iters
             /\ ResponseQueue' =
                  IF h.write
                  THEN [ResponseQueue EXCEPT ![wcmd.responseId] =
                          [owner |-> wcmd.owner, func |-> wcmd.func,
                           data |-> h.data]]
                  ELSE ResponseQueue
             /\ wpc' = IF h.ok /\ ~crash THEN "signal" ELSE "dead"
    /\ dispatchLog' = Append(dispatchLog, Consumed)
    /\ UNCHANGED <<mutex, full, agent, worker, responseMutex, responseSync,
                   workerProcessCreated, area, proc, wcmd, kvWorkerPid,
                   areaWriter, nReq, nStarted, writtenLog, signalLog,
                   acquireLog>>
    /\ UNCHANGED <<runVars, frameVars, teardown>>

\* fault variant of WorkerSignal: the post goes to the next channel
WorkerSignalNextChannel ==
    /\ wpc = "signal"
    /\ LET j == (wcmd.responseId + 1) % RESPONSEQUEUELENGTH IN
       /\ responseSync' = [responseSync EXCEPT ![j] = SemPost(@)]
       /\ signalLog' = Append(signalLog, j)
    /\ wpc' = "wait"
    /\ UNCHANGED <<mutex, full, agent, worker, responseMutex,
                   workerProcessCreated, area, ResponseQueue, proc, wcmd,
                   kvWorkerPid, kvTableHash, kvIterHash,
                   areaWriter, nReq, nStarted, writtenLog, dispatchLog,
                   acquireLog>>
    /\ UNCHANGED <<runVars, frameVars, teardown>>

\* fault variant of WorkerSignal: the post is made twice
WorkerSignalTwice ==
    /\ wpc = "signal"
    /\ responseSync' = [responseSync EXCEPT
                           ![wcmd.responseId] = SemPost(SemPost(@))]
    /\ signalLog' = signalLog \o <<wcmd.responseId, wcmd.responseId>>
    /\ wpc' = "wait"
    /\ UNCHANGED <<mutex, full, agent, worker, responseMutex,
                   workerProcessCreated, area, ResponseQueue, proc, wcmd,
                   kvWorkerPid, kvTableHash, kvIterHash,
                   areaWriter, nReq, nStarted, writtenLog, dispatchLog,
                   acquireLog>>
    /\ UNCHANGED <<runVars, frameVars, teardown>>

\* SemPost(&ptr->responseSync[responseId]) at the end of the loop body
WorkerSignal ==
    /\ wpc = "signal"
    /\ responseSync' = [responseSync EXCEPT ![wcmd.responseId] = SemPost(@)]
    /\ signalLog' = Append(signalLog, wcmd.responseId)
    /\ wpc' = "wait"
    /\ UNCHANGED <<mutex, full, agent, worker, responseMutex,
                   workerProcessCreated, area, ResponseQueue, proc, wcmd,
                   kvWorkerPid, kvTableHash, kvIterHash,
                   areaWriter, nReq, nStarted, writtenLog, dispatchLog,
                   acquireLog>>
    /\ UNCHANGED <<runVars, frameVars, teardown>>

\* after the loop: Close(entry->db) for every entry, proc_exit(0)
WorkerExit ==
    /\ wpc = "closing"
    /\ kvTableHash' = [r \in AreaRels |->
                          [kvTableHash[r] EXCEPT !.db = FALSE]]
    /\ wpc' = "exited"
    /\ UNCHANGED <<shmVars, proc, wcmd, kvWorkerPid, kvIterHash, ghostVars>>
    /\ UNCHANGED <<runVars, frameVars, teardown>>


\* ------------------------------- supervisor thread (KVStorageThreadFun)
\* SemWait(&ptr->agent[0])
SupWaitAgent ==
    /\ proc[Sup].pc = "s_wait"
    /\ SemCanWait(agent[0])
    /\ agent' = [agent EXCEPT ![0] = SemWait(agent[0])]
    /\ proc' = [proc EXCEPT ![Sup].pc = "s_start"]
    /\ UNCHANGED <<mutex, full, worker, responseMutex, responseSync,
                   workerProcessCreated, area, ResponseQueue, wpc, wcmd,
                   kvWorkerPid, kvTableHash, kvIterHash, ghostVars>>
    /\ UNCHANGED <<runVars, frameVars, teardown>>

\* fault variant of SupStartWorker: workerProcessCreated is not set
SupStartWorkerNoFlag ==
    /\ proc[Sup].pc = "s_start"
    /\ kvWorkerPid' = 1
    /\ nStarted' = nStarted + 1
    /\ wpc' = IF wpc = "none" THEN "wait" ELSE wpc
    /\ proc' = [proc EXCEPT ![Sup].pc = "s_post"]
    /\ UNCHANGED <<shmVars, wcmd, kvTableHash, kvIterHash,
                   areaWriter, nReq, writtenLog, dispatchLog, signalLog,
                   acquireLog>>
    /\ UNCHANGED <<runVars, frameVars, teardown>>

\* kvWorkerPid = StartKVWorker(); ptr->workerProcessCreated = true;
\* the forked child runs KVWorkerMain up to its first SemWait(&ptr->worker)
SupStartWorker ==
    /\ proc[Sup].pc = "s_start"
    /\ kvWorkerPid' = 1
    /\ nStarted' = nStarted + 1
    /\ wpc' = IF wpc = "none" THEN "wait" ELSE wpc
    /\ workerProcessCreated' = TRUE
    /\ proc' = [proc EXCEPT ![Sup].pc = "s_post"]
    /\ UNCHANGED <<mutex, full, agent, worker, responseMutex, responseSync,
                   area, ResponseQueue, wcmd, kvTableHash, kvIterHash,
                   areaWriter, nReq, writtenLog, dispatchLog, signalLog,
                   acquireLog>>
    /\ UNCHANGED <<runVars, frameVars, teardown>>

\* SemPost(&ptr->agent[1])
SupPostAgent ==
    /\ proc[Sup].pc = "s_post"
    /\ agent' = [agent EXCEPT ![1] = SemPost(agent[1])]
    /\ proc' = [proc EXCEPT ![Sup].pc = "s_wait"]
    /\ UNCHANGED <<mutex, full, worker, responseMutex, responseSync,
                   workerProcessCreated, area, ResponseQueue, wpc, wcmd,
                   kvWorkerPid, kvTableHash, kvIterHash, ghostVars>>
    /\ UNCHANGED <<runVars, frameVars, teardown>>

\* fault variant of Cancel: the handler goes to its teardown calls at once
CancelNoTerminate ==
    /\ proc[Sup].pc = "s_wait"
    /\ proc' = [proc EXCEPT ![Sup].pc = "cl_teardown",
                            ![Sup].func = "TERMINATE"]
    /\ UNCHANGED <<shmVars, wpc, wcmd, kvWorkerPid, kvTableHash, kvIterHash,
                   ghostVars>>
    /\ UNCHANGED <<runVars, frameVars, teardown>>

\* pthread_cancel of the thread, acted on at the cancellation point
\* SemWait(&ptr->agent[0]); cleanup_handler starts with if (kvWorkerPid != 0)
Cancel ==
    /\ proc[Sup].pc = "s_wait"
    /\ proc' = [proc EXCEPT
          ![Sup].pc = IF kvWorkerPid # 0 THEN "cl_mutex" ELSE "cl_teardown",
          ![Sup].func = "TERMINATE"]
    /\ UNCHANGED <<shmVars, wpc, wcmd, kvWorkerPid, kvTableHash, kvIterHash,
                   ghostVars>>
    /\ UNCHANGED <<runVars, frameVars, teardown>>

\* cleanup_handler: SemWait(&ptr->mutex)
CleanupMutex ==
    /\ proc[Sup].pc = "cl_mutex"
    /\ SemCanWait(mutex)
    /\ mutex' = SemWait(mutex)
    /\ proc' = [proc EXCEPT ![Sup].pc = "full"]
    /\ acquireLog' = Append(acquireLog, Sup)
    /\ UNCHANGED <<full, agent, worker, responseMutex, responseSync,
                   workerProcessCreated, area, ResponseQueue, wpc, wcmd,
                   kvWorkerPid, kvTableHash, kvIterHash, areaWriter, nReq,
                   nStarted, writtenLog, dispatchLog, signalLog>>
    /\ UNCHANGED <<runVars, frameVars, teardown>>

\* cleanup_handler: memcpy of responseId, SemPost(&ptr->worker)
CleanupPostWorker ==
    /\ proc[Sup].pc = "write_body"
    /\ area' = [area EXCEPT !.responseId = proc[Sup].responseId]
    /\ worker' = SemPost(worker)
    /\ writtenLog' = Append(writtenLog,
                            [Command(Sup) EXCEPT !.body = area.body])
    /\ proc' = [proc EXCEPT ![Sup].pc = "cl_wait_resp"]
    /\ UNCHANGED <<mutex, full, agent, responseMutex, responseSync,
                   workerProcessCreated, ResponseQueue, wpc, wcmd,
                   kvWorkerPid, kvTableHash, kvIterHash,
                   areaWriter, nReq, nStarted, dispatchLog, signalLog,
                   acquireLog>>
    /\ UNCHANGED <<runVars, frameVars, teardown>>

\* cleanup_handler: SemWait(&ptr->responseSync[responseId]); kvWorkerPid = 0
CleanupWaitResp ==
    /\ proc[Sup].pc = "cl_wait_resp"
    /\ SemCanWait(responseSync[proc[Sup].responseId])
    /\ responseSync' = [responseSync EXCEPT
                           ![proc[Sup].responseId] = SemWait(@)]
    /\ kvWorkerPid' = 0
    /\ proc' = [proc EXCEPT ![Sup].pc = "cl_teardown"]
    /\ UNCHANGED <<mutex, full, agent, worker, responseMutex,
                   workerProcessCreated, area, ResponseQueue, wpc, wcmd,
                   kvTableHash, kvIterHash, ghostVars>>
    /\ UNCHANGED <<runVars, frameVars, teardown>>

\* cleanup_handler: Munmap/ShmUnlink of the response buffers, SemDestroy of
\* every semaphore, Munmap/ShmUnlink of the control block
\* fault variant of TornDown: responseSync is left out
TornDownNoSync(t) ==
    [t EXCEPT
        !.unmapped = [i \in Channels |-> @[i] + 1],
        !.unlinked = [i \in Channels |-> @[i] + 1],
        !.mutex = @ + 1,
        !.full = @ + 1,
        !.agent = [k \in 0 .. 1 |-> @[k] + 1],
        !.worker = @ + 1,
        !.responseMutex = [i \in Channels |-> @[i] + 1],
        !.ctlUnmapped = @ + 1,
        !.ctlUnlinked = @ + 1]

\* cleanup_handler from "release the response area first" on: for each i
\* Munmap(ResponseQueue[i]) and ShmUnlink(RESPONSEFILE i); SemDestroy of
\* mutex, full, agent[0], agent[1], worker; for each i SemDestroy of
\* responseMutex[i] and responseSync[i]; Munmap(ptr); ShmUnlink(BACKFILE)
TornDown(t) ==
    [t EXCEPT
        !.unmapped = [i \in Channels |-> @[i] + 1],
        !.unlinked = [i \in Channels |-> @[i] + 1],
        !.mutex = @ + 1,
        !.full = @ + 1,
        !.agent = [k \in 0 .. 1 |-> @[k] + 1],
        !.worker = @ + 1,
        !.responseMutex = [i \in Channels |-> @[i] + 1],
        !.responseSync = [i \in Channels |-> @[i] + 1],
        !.ctlUnmapped = @ + 1,
        !.ctlUnlinked = @ + 1]

CleanupTeardown ==
    /\ proc[Sup].pc = "cl_teardown"
    /\ teardown' = TornDown(teardown)
    /\ proc' = [proc EXCEPT ![Sup].pc = "s_done"]
    /\ UNCHANGED <<shmVars, wpc, wcmd, kvWorkerPid, kvTableHash, kvIterHash,
                   ghostVars>>
    /\ UNCHANGED <<runVars, frameVars>>

\* ------------------------------------------------------------------- Next
ClientStep(c) ==
    \/ StartRequest(c)
    \/ AcquireMutex(c)
    \/ AgentPost(c)
    \/ AgentWait(c)
    \/ WaitFull(c)
    \/ WriteFunc(c)
    \/ LeaseTry(c)
    \/ WriteBody(c)
    \/ PutErrMutex(c)
    \/ PutErrRelease(c)
    \/ PostWorker(c)
    \/ PostMutex(c)
    \/ WaitResp(c)
    \/ ReadResp(c)
    \/ Release(c)

WorkerStep ==
    \/ WorkerWait
    \/ WorkerCopy
    \/ WorkerPostFull
    \/ WorkerTerminate
    \/ WorkerDispatch
    \/ WorkerSignal
    \/ WorkerExit

SupStep ==
    \/ SupWaitAgent
    \/ SupStartWorker
    \/ SupPostAgent
    \/ CleanupMutex
    \/ WaitFull(Sup)
    \/ WriteFunc(Sup)
    \/ LeaseTry(Sup)
    \/ CleanupPostWorker
    \/ CleanupWaitResp
    \/ CleanupTeardown

Next ==
    \/ \E c \in Clients : ClientStep(c)
    \/ WorkerStep
    \/ SupStep
    \/ Cancel

Spec == Init /\ [][Next]_vars

\* Every process that can take a step is scheduled eventually: the kernel
\* runs each runnable process, and sem_wait returns once the semaphore is
\* positive.  Starting a request and cancelling the supervisor thread are
\* choices of the environment and carry no fairness.
ClientProgress(c) ==
    \/ AcquireMutex(c)
    \/ AgentPost(c)
    \/ AgentWait(c)
    \/ WaitFull(c)
    \/ WriteFunc(c)
    \/ LeaseTry(c)
    \/ WriteBody(c)
    \/ PutErrMutex(c)
    \/ PutErrRelease(c)
    \/ PostWorker(c)
    \/ PostMutex(c)
    \/ WaitResp(c)
    \/ ReadResp(c)
    \/ Release(c)

FairSpec ==
    /\ Spec
    /\ \A c \in Clients : WF_vars(ClientProgress(c))
    /\ WF_vars(WorkerStep)
    /\ WF_vars(SupStep)

\* --------------------------------------------------- class KVWorker: Run
\* the two files that define class KVWorker
Variants == {"server", "legacy"}

\* enum KVOperation (kv_message.h); "KVOpUnknown" stands for every value
\* that is not an enumerator.  KVOpLaunch has no case in Run's switch.
\* The messages that carry a (pid, opid) key are CursorOps and RangeOps;
\* KVOpRangeQuery and KVOpClearRangeQuery exist in a VIDARDB build.
DataOps == {"KVOpCount", "KVOpPut", "KVOpGet", "KVOpDel", "KVOpLoad"}
CursorOps == {"KVOpReadBatch", "KVOpDelCursor"}
RangeOps == {"KVOpRangeQuery", "KVOpClearRangeQuery"}
DefaultOps == {"KVOpLaunch", "KVOpUnknown"}
KVOperation == {"KVOpDummy", "KVOpOpen", "KVOpClose", "KVOpTerminate"}
                  \cup DataOps \cup CursorOps \cup RangeOps \cup DefaultOps
\* the opcodes of the messages sent to the run loop alone: all but the
\* cursor and range ones
RunOps ==
    {"KVOpDummy", "KVOpOpen", "KVOpClose", "KVOpTerminate", "KVOpCount",
     "KVOpPut", "KVOpGet", "KVOpDel", "KVOpLoad", "KVOpLaunch", "KVOpUnknown"}

\* KVWorker::KVWorker: running_ = false, conn_ = nullptr, ref_ = 0.  The
\* constructor in kv_worker.cc leaves the three to the member initializers of
\* a header that is not part of src/; they are taken to be the same.
RunInit ==
    /\ ShmInit
    /\ variant \in Variants
    /\ running = FALSE
    /\ conn = FALSE
    /\ ref = 0
    /\ rpc = "new"
    /\ op = None
    /\ received = <<>>
    /\ destroyed = FALSE
    /\ nOpenConn = 0
    /\ nCloseConn = 0
    /\ notes = <<>>
    /\ CurOff
    /\ FrameOff
    /\ AuxOff

\* KVWorker::Start, called by KVWorkerDo before Run
Start ==
    /\ rpc = "new"
    /\ running' = TRUE
    /\ rpc' = "started"
    /\ UNCHANGED <<variant, conn, ref, op, received, shmAll, frameVars, curVars, rangeVars,
                   connVars>>

\* KVWorkerDo and StartKVWorker, between Start and Run:
\* manager->Notify(WorkerReady)
NotifyReady ==
    /\ rpc = "started"
    /\ notes' = Append(notes, "WorkerReady")
    /\ rpc' = "test"
    /\ UNCHANGED <<variant, running, conn, ref, op, received, shmAll,
                   frameVars, curVars, rangeVars, destroyed, nOpenConn,
                   nCloseConn>>

\* while (running_): into the body
RunTest ==
    /\ rpc = "test"
    /\ running
    /\ rpc' = "recv"
    /\ UNCHANGED <<variant, running, conn, ref, op, received, shmAll, frameVars, curVars, rangeVars,
                   connVars>>

\* while (running_): out of the loop; Run returns to KVWorkerDo
RunReturn ==
    /\ rpc = "test"
    /\ ~running
    /\ rpc' = "exited"
    /\ UNCHANGED <<variant, running, conn, ref, op, received, shmAll, frameVars, curVars, rangeVars,
                   connVars>>

\* queue_->Recv(msg, MSGHEADER): blocks until a client has sent a message;
\* here a message without a key
RunRecv ==
    /\ rpc = "recv"
    /\ Len(received) < MaxMsgs
    /\ \E o \in RunOps :
          /\ op' = o
          /\ received' = Append(received, o)
    /\ rpc' = "dispatch"
    /\ UNCHANGED <<variant, running, conn, ref, shmAll, frameVars, curVars, rangeVars,
                   connVars>>

\* case KVOpDummy: break;
RunDummyStops ==
    /\ rpc = "dispatch"
    /\ op = "KVOpDummy"
    /\ running' = FALSE
    /\ rpc' = "test"
    /\ UNCHANGED <<variant, conn, ref, op, received, shmAll, frameVars, curVars, rangeVars,
                   connVars>>

RunDummy ==
    /\ rpc = "dispatch"
    /\ op = "KVOpDummy"
    /\ rpc' = "test"
    /\ UNCHANGED <<variant, running, conn, ref, op, received, shmAll, frameVars, curVars, rangeVars,
                   connVars>>

\* default: ereport(WARNING, ...)
RunDefault ==
    /\ rpc = "dispatch"
    /\ op \in DefaultOps
    /\ rpc' = "test"
    /\ UNCHANGED <<variant, running, conn, ref, op, received, shmAll, frameVars, curVars, rangeVars,
                   connVars>>

\* Count, Put, Get, Delete, Load: none of them assigns running_, conn_,
\* ref_, cursors_ or ranges_
RunData ==
    /\ rpc = "dispatch"
    /\ op \in DataOps
    /\ rpc' = "test"
    /\ UNCHANGED <<variant, running, conn, ref, op, received, shmAll, frameVars, curVars, rangeVars,
                   connVars>>

\* server/kv_worker.cc: if (!conn_) conn_ = OpenConn(...); ref_++;
\* kv_worker.cc:        if (conn) ref++; else conn = OpenConn(...);
KVWorkerOpen ==
    /\ rpc = "dispatch"
    /\ op = "KVOpOpen"
    /\ conn' = TRUE
    /\ ref' = IF variant = "server" THEN Inc32(ref)
              ELSE IF conn THEN Inc32(ref) ELSE ref
    /\ nOpenConn' = IF conn THEN nOpenConn ELSE nOpenConn + 1
    /\ rpc' = "test"
    /\ UNCHANGED <<variant, running, op, received, shmAll, frameVars, curVars, rangeVars, destroyed,
                   nCloseConn, notes>>

\* fault variant of KVWorkerClose: the connection is closed when the count
\* reaches 0
KVWorkerCloseAtZero ==
    /\ rpc = "dispatch"
    /\ op = "KVOpClose"
    /\ ref' = IF conn THEN Dec32(ref) ELSE ref
    /\ conn' = (conn /\ Dec32(ref) # 0)
    /\ nCloseConn' = IF conn /\ Dec32(ref) = 0 THEN nCloseConn + 1
                     ELSE nCloseConn
    /\ rpc' = "test"
    /\ UNCHANGED <<variant, running, op, received, shmAll, frameVars, curVars, rangeVars, destroyed,
                   nOpenConn, notes>>

\* both files: if (conn_) ref_--;
KVWorkerClose ==
    /\ rpc = "dispatch"
    /\ op = "KVOpClose"
    /\ ref' = IF conn THEN Dec32(ref) ELSE ref
    /\ rpc' = "test"
    /\ UNCHANGED <<variant, running, conn, op, received, shmAll, frameVars, curVars, rangeVars,
                   connVars>>

\* KVWorker::Terminate: Recv(msg, MSGDISCARD); Stop();
\* KVWorker::Stop: running_ = false; queue_->Stop()
KVWorkerTerminate ==
    /\ rpc = "dispatch"
    /\ op = "KVOpTerminate"
    /\ running' = FALSE
    /\ rpc' = "test"
    /\ UNCHANGED <<variant, conn, ref, op, received, shmAll, frameVars, curVars, rangeVars,
                   connVars>>

\* the worker has sent the manager a notification of this type
Notified(type) == \E k \in 1 .. Len(notes) : notes[k] = type

\* KVWorkerDo (server/kv_worker.cc) after Run has returned:
\* manager->Notify(WorkerDesty)
NotifyDestroyed ==
    /\ rpc = "exited"
    /\ variant = "server"
    /\ ~Notified("WorkerDesty")
    /\ notes' = Append(notes, "WorkerDesty")
    /\ UNCHANGED <<variant, running, conn, ref, rpc, op, received, shmAll,
                   frameVars, curVars, rangeVars, destroyed, nOpenConn,
                   nCloseConn>>

\* KVWorkerDo after Run has returned: delete worker;
\* KVWorker::~KVWorker: if (conn_) CloseConn(conn_);
\* In kv_worker.cc StartKVWorker goes from Run straight to delete worker.
Destroy ==
    /\ rpc = "exited"
    /\ ~destroyed
    /\ variant = "server" => Notified("WorkerDesty")
    /\ destroyed' = TRUE
    /\ conn' = FALSE
    /\ nCloseConn' = IF conn THEN nCloseConn + 1 ELSE nCloseConn
    /\ UNCHANGED <<variant, running, ref, rpc, op, received, nOpenConn,
                   notes, shmAll, frameVars, curVars, rangeVars>>

\* the worker's own steps: everything but the arrival of a message
RunProgress ==
    \/ Start
    \/ NotifyReady
    \/ RunTest
    \/ RunReturn
    \/ RunDummy
    \/ RunDefault
    \/ RunData
    \/ KVWorkerOpen
    \/ KVWorkerClose
    \/ KVWorkerTerminate
    \/ NotifyDestroyed
    \/ Destroy

RunNext ==
    \/ RunProgress
    \/ RunRecv

SpecRun == RunInit /\ [][RunNext]_vars

\* the worker process is scheduled whenever it can take a step of its own
FairSpecRun == SpecRun /\ WF_vars(RunProgress)

\* ------------------------------------- class KVWorker: cursor registry
\* queue_->Recv(msg, MSGHEADER) for a message of `ops`; the key is the one
\* the handler will read from the entity.  Clients read after they have
\* opened the relation, so a message that makes the worker call the storage
\* engine arrives when conn_ is set.
RecvKeyed(ops) ==
    /\ rpc = "recv"
    /\ Len(received) < MaxKeyedMsgs
    /\ \E o \in ops :
          /\ o \in {"KVOpReadBatch", "KVOpRangeQuery"} => conn
          /\ op' = o
          /\ received' = Append(received, o)
          /\ IF o \in CursorOps \/ o \in RangeOps
             THEN \E k \in Keys : key' = k
             ELSE key' = NoKey
          /\ IF o = "KVOpRangeQuery"
             THEN \E opts \in Opts : msgOpts' = opts
             ELSE msgOpts' = NoOpts
    /\ rpc' = "dispatch"
    /\ UNCHANGED <<variant, running, conn, ref, shmAll, frameVars, connVars, cursors,
                   nIter, nDelIter, atEnd, lastCursorOp, reply, ranges,
                   rqReads, rqReplies, rangeEntry, entry, nParse, rqHandles,
                   segment>>

CursorMsgOps ==
    {"KVOpOpen", "KVOpTerminate", "KVOpReadBatch", "KVOpDelCursor"}

RecvCursor == RecvKeyed(CursorMsgOps)

\* BatchRead(conn_, cursor, shm, &state.size) of the storage engine, which
\* is not part of src/: what it may return for iterator `it`.  An iterator
\* that has reported the end of the data has nothing more to give.
BatchRead(it, next, size) ==
    atEnd[it] => (~next /\ size = 0)

\* fault variant of KVWorkerReadBatch: GetIter on every call
KVWorkerReadBatchFresh ==
    /\ rpc = "dispatch"
    /\ op = "KVOpReadBatch"
    /\ LET it == nIter + 1 IN
       /\ cursors' = [cursors EXCEPT ![key] = it]
       /\ nIter' = it
       /\ \E next \in BOOLEAN, size \in 0 .. MaxSize :
             /\ BatchRead(it, next, size)
             /\ atEnd' = [atEnd EXCEPT ![it] = ~next]
             /\ reply' = [op |-> op, key |-> key, status |-> "Success",
                          next |-> next, size |-> size]
    /\ lastCursorOp' = [lastCursorOp EXCEPT ![key] = "read"]
    /\ rpc' = "test"
    /\ UNCHANGED <<variant, running, conn, ref, op, received, shmAll, frameVars,
                   connVars, key, nDelIter, rangeVars>>

\* KVWorker::ReadBatch: it = cursors_.find(key); not found: cursor =
\* GetIter(conn_), cursors_.insert({key, cursor}); found: cursor =
\* it->second; state.next = BatchRead(...); Send(SuccessMessage) with state
KVWorkerReadBatch ==
    /\ rpc = "dispatch"
    /\ op = "KVOpReadBatch"
    /\ LET found == cursors[key] # NoIter
           it == IF found THEN cursors[key] ELSE nIter + 1
       IN
       /\ cursors' = [cursors EXCEPT ![key] = it]
       /\ nIter' = IF found THEN nIter ELSE nIter + 1
       /\ \E next \in BOOLEAN, size \in 0 .. MaxSize :
             /\ BatchRead(it, next, size)
             /\ atEnd' = [atEnd EXCEPT ![it] = ~next]
             /\ reply' = [op |-> op, key |-> key, status |-> "Success",
                          next |-> next, size |-> size]
    /\ lastCursorOp' = [lastCursorOp EXCEPT ![key] = "read"]
    /\ rpc' = "test"
    /\ UNCHANGED <<variant, running, conn, ref, op, received, shmAll, frameVars,
                   connVars, key, nDelIter, rangeVars>>

\* KVWorker::CloseCursor: it = cursors_.find(key); not found: return;
\* DelIter(it->second); cursors_.erase(it).  kv_worker.cc answers with
\* SimpleSuccessMessage on either path, server/kv_worker.cc sends nothing.
KVWorkerCloseCursor ==
    /\ rpc = "dispatch"
    /\ op = "KVOpDelCursor"
    /\ LET it == cursors[key] IN
       IF it = NoIter
       THEN UNCHANGED <<cursors, nDelIter>>
       ELSE /\ nDelIter' = [nDelIter EXCEPT ![it] = @ + 1]
            /\ cursors' = [cursors EXCEPT ![key] = NoIter]
    /\ reply' = IF variant = "legacy"
                THEN [op |-> op, key |-> key, status |-> "Success",
                      next |-> FALSE, size |-> 0]
                ELSE reply
    /\ lastCursorOp' = [lastCursorOp EXCEPT ![key] = "close"]
    /\ rpc' = "test"
    /\ UNCHANGED <<variant, running, conn, ref, op, received, shmAll, frameVars,
                   connVars, key, nIter, atEnd, rangeVars>>

\* what the caller's *buf and *bufLen may hold when it calls ReadBatch
ClientBufs == [bufLen : 0 .. MaxSize, buf : {"null", "mapped"}]

\* fault variant of ClientReadBatch: the buffer is mapped whatever bufLen is
ClientReadBatchMaps(r, prev) ==
    IF r.status # "Success"
    THEN [ret |-> FALSE, bufLen |-> prev.bufLen,
          buf |-> IF prev.buf = "mapped" THEN "unmapped" ELSE "null"]
    ELSE [ret |-> r.next, bufLen |-> r.size, buf |-> "mapped"]

\* KVWorkerClient::ReadBatch on the response r, prev being the caller's
\* buffer: if (*buf != nullptr) Munmap(*buf); status != KVStatusSuccess:
\* return false, with *buf and *bufLen as they were; next = buf[0];
\* *bufLen = size; bufLen == 0: *buf = nullptr, else *buf = Mmap(...);
\* return next
ClientReadBatch(r, prev) ==
    IF r.status # "Success"
    THEN [ret |-> FALSE, bufLen |-> prev.bufLen,
          buf |-> IF prev.buf = "mapped" THEN "unmapped" ELSE "null"]
    ELSE [ret |-> r.next, bufLen |-> r.size,
          buf |-> IF r.size = 0 THEN "null" ELSE "mapped"]

CursorNext ==
    \/ Start
    \/ NotifyReady
    \/ RunTest
    \/ RunReturn
    \/ RecvCursor
    \/ KVWorkerOpen
    \/ KVWorkerReadBatch
    \/ KVWorkerCloseCursor
    \/ KVWorkerTerminate
    \/ NotifyDestroyed
    \/ Destroy

SpecCursor == RunInit /\ [][CursorNext]_vars

\* ---------------------------------------- class KVWorker: range queries
RangeMsgOps ==
    {"KVOpOpen", "KVOpTerminate", "KVOpRangeQuery", "KVOpClearRangeQuery"}

RecvRange == RecvKeyed(RangeMsgOps)

\* ParseRangeQueryOptions(&opts, &entry.range, &entry.readOpts): a new pair
\* of handles, made from the options
Parsed(k, opts) == [key |-> k, opts |-> opts, cleared |-> 0]

\* fault variant of KVWorkerRangeQuery: the options are parsed on every call
KVWorkerRangeQueryReparse ==
    /\ rpc = "dispatch"
    /\ op = "KVOpRangeQuery"
    /\ nParse' = nParse + 1
    /\ rqHandles' = [rqHandles EXCEPT ![nParse + 1] = Parsed(key, msgOpts)]
    /\ rangeEntry' = [rangeEntry EXCEPT ![key] = nParse + 1]
    /\ entry' = nParse + 1
    /\ ranges' = [ranges EXCEPT ![key] = TRUE]
    /\ rpc' = "rq_read"
    /\ UNCHANGED <<variant, running, conn, ref, op, received, shmAll, frameVars,
                   connVars, curVars, rqReads, rqReplies, msgOpts, segment>>

\* KVWorker::RangeQuery up to its loop: it = ranges_.find(key); not found:
\* the options are read from the entity, ParseRangeQueryOptions,
\* ranges_.insert({key, entry}); found: entry = it->second
KVWorkerRangeQuery ==
    /\ rpc = "dispatch"
    /\ op = "KVOpRangeQuery"
    /\ IF rangeEntry[key] = NoHandle
       THEN /\ nParse' = nParse + 1
            /\ rqHandles' = [rqHandles EXCEPT
                                ![nParse + 1] = Parsed(key, msgOpts)]
            /\ rangeEntry' = [rangeEntry EXCEPT ![key] = nParse + 1]
            /\ entry' = nParse + 1
       ELSE /\ entry' = rangeEntry[key]
            /\ UNCHANGED <<nParse, rqHandles, rangeEntry>>
    /\ ranges' = [ranges EXCEPT ![key] = TRUE]
    /\ rpc' = "rq_read"
    /\ UNCHANGED <<variant, running, conn, ref, op, received, shmAll, frameVars,
                   connVars, curVars, rqReads, rqReplies, msgOpts, segment>>

\* fault variant of RangeQueryLoop: the handler answers after one read
RangeQueryLoopOnce ==
    /\ rpc = "rq_read"
    /\ Len(rqReads) < MaxReads
    /\ \E next \in BOOLEAN, size \in 0 .. MaxSize :
          LET state == [next |-> next, size |-> size] IN
          /\ rqReads' = Append(rqReads, state)
          /\ rqReplies' = Append(rqReplies, state)
          /\ segment' = [segment EXCEPT ![key] = size > 0]
          /\ reply' = [op |-> op, key |-> key, status |-> "Success",
                       next |-> next, size |-> size]
          /\ rpc' = "test"
    /\ UNCHANGED <<variant, running, conn, ref, op, received, shmAll, frameVars,
                   connVars, key, cursors, nIter, nDelIter, atEnd,
                   lastCursorOp, ranges, msgOpts, rangeEntry, entry, nParse,
                   rqHandles>>

\* do { state.next = RangeQueryRead(..., &state.size, &result); }
\* while (state.next && state.size == 0);  one pass of the loop, and on
\* leaving it the rest of the handler: ShmUnlink(name), with state.size > 0
\* ShmOpen(name, O_CREAT), and Send(SuccessMessage) with state.
\* RangeQueryRead belongs to the storage engine and may return any state.
RangeQueryLoop ==
    /\ rpc = "rq_read"
    /\ Len(rqReads) < MaxReads
    /\ \E next \in BOOLEAN, size \in 0 .. MaxSize :
          LET state == [next |-> next, size |-> size] IN
          /\ rqReads' = Append(rqReads, state)
          /\ IF next /\ size = 0
             THEN UNCHANGED <<rqReplies, reply, rpc, segment>>
             ELSE /\ rqReplies' = Append(rqReplies, state)
                  /\ segment' = [segment EXCEPT ![key] = size > 0]
                  /\ reply' = [op |-> op, key |-> key, status |-> "Success",
                               next |-> next, size |-> size]
                  /\ rpc' = "test"
    /\ UNCHANGED <<variant, running, conn, ref, op, received, shmAll, frameVars,
                   connVars, key, cursors, nIter, nDelIter, atEnd,
                   lastCursorOp, ranges, msgOpts, rangeEntry, entry, nParse,
                   rqHandles>>

\* fault variant of KVWorkerClearRangeQuery: the entry is not erased
KVWorkerClearRangeQueryNoErase ==
    /\ rpc = "dispatch"
    /\ op = "KVOpClearRangeQuery"
    /\ IF rangeEntry[key] = NoHandle
       THEN UNCHANGED <<rqHandles, segment>>
       ELSE /\ rqHandles' = [rqHandles EXCEPT
                                ![rangeEntry[key]].cleared = @ + 1]
            /\ segment' = [segment EXCEPT ![key] = FALSE]
    /\ rpc' = "test"
    /\ UNCHANGED <<variant, running, conn, ref, op, received, shmAll, frameVars,
                   connVars, curVars, rqReads, rqReplies, msgOpts, entry,
                   nParse, ranges, rangeEntry>>

\* KVWorker::ClearRangeQuery: it = ranges_.find(key); not found: return;
\* ClearRangeQueryMeta(it->second.range, it->second.readOpts);
\* ranges_.erase(it); ShmUnlink(name)
KVWorkerClearRangeQuery ==
    /\ rpc = "dispatch"
    /\ op = "KVOpClearRangeQuery"
    /\ IF rangeEntry[key] = NoHandle
       THEN UNCHANGED <<ranges, rangeEntry, rqHandles, segment>>
       ELSE /\ rqHandles' = [rqHandles EXCEPT
                                ![rangeEntry[key]].cleared = @ + 1]
            /\ ranges' = [ranges EXCEPT ![key] = FALSE]
            /\ rangeEntry' = [rangeEntry EXCEPT ![key] = NoHandle]
            /\ segment' = [segment EXCEPT ![key] = FALSE]
    /\ rpc' = "test"
    /\ UNCHANGED <<variant, running, conn, ref, op, received, shmAll, frameVars,
                   connVars, curVars, rqReads, rqReplies, msgOpts, entry,
                   nParse>>

\* KVWorkerClient::RangeQuery on the response r: as ReadBatch, with a
\* mapping of bufLen bytes
ClientRangeQuery(r) ==
    [ret |-> r.next, bufLen |-> r.size,
     buf |-> IF r.size > 0 THEN "mapped" ELSE "null"]

RangeNext ==
    \/ Start
    \/ NotifyReady
    \/ RunTest
    \/ RunReturn
    \/ RecvRange
    \/ KVWorkerOpen
    \/ KVWorkerRangeQuery
    \/ RangeQueryLoop
    \/ KVWorkerClearRangeQuery
    \/ KVWorkerTerminate
    \/ NotifyDestroyed
    \/ Destroy

SpecRange == RunInit /\ [][RangeNext]_vars

\* ------------------------------- class KVWorker: Put, Get, Delete frames
\* sizeof(args->keyLen): keyLen is a uint64
SizeofKeyLen == 8

\* the bytes of a uint64 in memory, least significant first.  Lengths in the
\* model are far below 2^24, and TLC's integers end at 2^31: the upper five
\* bytes are 0.
Uint64Bytes(n) ==
    [i \in 1 .. SizeofKeyLen |->
        IF i <= 3 THEN (n \div (256 ^ (i - 1))) % 256 ELSE 0]

\* *static_cast<uint64*>(msg.ety)
Uint64At(ety) == ety[1] + 256 * ety[2] + 65536 * ety[3]

\* KVWorkerClient::WritePutArgs: Push(keyLen), Push(key), Push(val)
WritePutArgs(k, v) == Uint64Bytes(Len(k)) \o k \o v

\* KVWorkerClient::Put up to the send: etySize = keyLen + valLen +
\* sizeof(keyLen), the entity written by WritePutArgs
ClientPut ==
    /\ fpc = "idle"
    /\ \E k \in KeySet, v \in ValSet :
          /\ call' = [op |-> "KVOpPut", key |-> k, val |-> v]
          /\ request' = [op |-> "KVOpPut", status |-> None,
                         etySize |-> Len(k) + Len(v) + SizeofKeyLen,
                         ety |-> WritePutArgs(k, v)]
    /\ fpc' = "worker"
    /\ UNCHANGED <<decoded, response, callResult, store, model, shmAll, runVars, bufVars,
                   auxVars>>

\* the two calls that send a key alone
KeyedCallOps == {"KVOpDel", "KVOpGet"}

\* KVWorkerClient::Get and KVWorkerClient::Delete up to the send: the
\* entity is the key, etySize = keyLen
ClientKeyed ==
    /\ fpc = "idle"
    /\ \E o \in KeyedCallOps, k \in KeySet :
          /\ call' = [op |-> o, key |-> k, val |-> <<>>]
          /\ request' = [op |-> o, status |-> None, etySize |-> Len(k),
                         ety |-> k]
    /\ fpc' = "worker"
    /\ UNCHANGED <<decoded, response, callResult, store, model, shmAll, runVars, bufVars,
                   auxVars>>

\* KVWorkerClient::Count up to the send: SimpleMessage(KVOpCount), no entity
ClientCount ==
    /\ fpc = "idle"
    /\ call' = [op |-> "KVOpCount", key |-> <<>>, val |-> <<>>]
    /\ request' = [op |-> "KVOpCount", status |-> None, etySize |-> 0,
                   ety |-> <<>>]
    /\ fpc' = "worker"
    /\ UNCHANGED <<decoded, response, callResult, store, model, shmAll, runVars, bufVars,
                   auxVars>>

\* fault variant of PutArgsOf: the value is taken from the start of the key
PutArgsOfNoSkip(msg) ==
    LET keyLen == Uint64At(msg.ety)
        valLen == msg.etySize - keyLen - SizeofKeyLen
    IN [keyLen |-> keyLen,
        key |-> SubSeq(msg.ety, SizeofKeyLen + 1, SizeofKeyLen + keyLen),
        valLen |-> valLen,
        val |-> SubSeq(msg.ety, SizeofKeyLen + 1, SizeofKeyLen + valLen)]

\* KVWorker::Put: args.keyLen = *(uint64*) msg.ety; args.valLen =
\* msg.hdr.etySize - args.keyLen - sizeof(args.keyLen); args.key = ety +
\* sizeof(keyLen); args.val = ety + sizeof(keyLen) + keyLen
PutArgsOf(msg) ==
    LET keyLen == Uint64At(msg.ety)
        valLen == msg.etySize - keyLen - SizeofKeyLen
    IN [keyLen |-> keyLen,
        key |-> SubSeq(msg.ety, SizeofKeyLen + 1, SizeofKeyLen + keyLen),
        valLen |-> valLen,
        val |-> SubSeq(msg.ety, SizeofKeyLen + keyLen + 1,
                       SizeofKeyLen + keyLen + valLen)]

SuccessMessage == [op |-> None, status |-> "Success", etySize |-> 0,
                   ety |-> <<>>]
FailureMessage == [op |-> None, status |-> "Failure", etySize |-> 0,
                   ety |-> <<>>]

\* KVMessageHeader: KVMessageStatus status = KVStatusDummy, the status of a
\* KVMessage that was declared and never given one
DefaultMessage == [op |-> None, status |-> "Dummy", etySize |-> 0,
                   ety |-> <<>>]

\* KVWorker::Count: count = GetCount(conn_); KVMessage sendmsg; ety = &count,
\* etySize = sizeof(count), rpsId, writeFunc are set and the message is sent.
\* GetCount belongs to the storage engine: any count is its answer.
KVWorkerCount ==
    /\ fpc = "worker"
    /\ request.op = "KVOpCount"
    /\ \E count \in 0 .. Cardinality(KeySet) :
          response' = [DefaultMessage EXCEPT !.etySize = SizeofKeyLen,
                                             !.ety = Uint64Bytes(count)]
    /\ fpc' = "client"
    /\ UNCHANGED <<call, request, decoded, callResult, store, model, shmAll,
                   runVars, bufVars,
                   auxVars>>

\* KVWorker::Put: success = PutRecord(conn_, key, keyLen, val, valLen);
\* Send(success ? SuccessMessage : FailureMessage).  PutRecord belongs to
\* the storage engine: it stores the record, or declines and stores nothing.
KVWorkerPut ==
    /\ fpc = "worker"
    /\ request.op = "KVOpPut"
    /\ LET args == PutArgsOf(request) IN
       /\ decoded' = args
       /\ \E success \in BOOLEAN :
             /\ store' = IF success
                         THEN [store EXCEPT ![args.key] =
                                 [present |-> TRUE, val |-> args.val]]
                         ELSE store
             /\ response' = IF success THEN SuccessMessage ELSE FailureMessage
    /\ fpc' = "client"
    /\ UNCHANGED <<call, request, callResult, model, shmAll, runVars, bufVars,
                   auxVars>>

\* KVWorker::Get: success = GetRecord(conn_, ety, etySize, &val, &valLen);
\* success: SuccessMessage with etySize = valLen, ety = val; otherwise
\* FailureMessage.  GetRecord finds the record of the key or reports none.
KVWorkerGet ==
    /\ fpc = "worker"
    /\ request.op = "KVOpGet"
    /\ LET rec == store[request.ety] IN
       response' = IF rec.present
                   THEN [SuccessMessage EXCEPT !.etySize = Len(rec.val),
                                               !.ety = rec.val]
                   ELSE FailureMessage
    /\ fpc' = "client"
    /\ UNCHANGED <<call, request, decoded, callResult, store, model, shmAll,
                   runVars, bufVars,
                   auxVars>>

\* KVWorker::Delete: success = DelRecord(conn_, ety, etySize);
\* Send(success ? SuccessMessage : FailureMessage).  DelRecord removes the
\* record of the key, or declines and removes nothing.
KVWorkerDelete ==
    /\ fpc = "worker"
    /\ request.op = "KVOpDel"
    /\ \E success \in BOOLEAN :
          /\ store' = IF success
                      THEN [store EXCEPT ![request.ety] = NoRecord]
                      ELSE store
          /\ response' = IF success THEN SuccessMessage ELSE FailureMessage
    /\ fpc' = "client"
    /\ UNCHANGED <<call, request, decoded, callResult, model, shmAll, runVars, bufVars,
                   auxVars>>

\* the rest of KVWorkerClient::Put and KVWorkerClient::Delete: return
\* recvmsg.hdr.status == KVStatusSuccess; of KVWorkerClient::Get: *valLen =
\* recvmsg.hdr.etySize; *val = palloc0(*valLen); Recv(recvmsg, MSGENTITY);
\* return recvmsg.hdr.status == KVStatusSuccess; of KVWorkerClient::Count:
\* the entity is read into count and returned, the status is not tested
ClientReturn ==
    /\ fpc = "client"
    /\ LET ok == response.status = "Success" IN
       /\ callResult' = IF call.op = "KVOpGet"
                    THEN [op |-> call.op, ok |-> ok,
                          valLen |-> response.etySize, val |-> response.ety]
                    ELSE IF call.op = "KVOpCount"
                    THEN [op |-> call.op, ok |-> TRUE,
                          valLen |-> response.etySize, val |-> response.ety]
                    ELSE [op |-> call.op, ok |-> ok, valLen |-> 0,
                          val |-> <<>>]
       /\ model' = IF ok /\ call.op = "KVOpPut"
                   THEN [model EXCEPT ![call.key] =
                           [present |-> TRUE, val |-> call.val]]
                   ELSE IF ok /\ call.op = "KVOpDel"
                   THEN [model EXCEPT ![call.key] = NoRecord]
                   ELSE model
    /\ fpc' = "idle"
    /\ UNCHANGED <<call, request, decoded, response, store, shmAll, runVars, bufVars,
                   auxVars>>

FrameNext ==
    \/ ClientPut
    \/ ClientKeyed
    \/ ClientCount
    \/ KVWorkerCount
    \/ KVWorkerPut
    \/ KVWorkerGet
    \/ KVWorkerDelete
    \/ ClientReturn

SpecFrame == Init /\ [][FrameNext]_vars

\* ------------------------- class KVWorkerClient: the cursor's batch buffer
\* Munmap(p, len): one more call of munmap on the mapping p
Munmap(u, p) == [u EXCEPT ![p] = @ + 1]

\* KVMessageStatus
Statuses == {"Dummy", "Success", "Failure", "Exception"}

\* KVWorkerClient::ReadBatch up to SendWithResponse:
\* if (*buf != nullptr) Munmap(*buf, READBATCHSIZE)
ClientReadBatchSend ==
    /\ bpc = "idle"
    /\ nBufCalls < MaxBufCalls
    /\ ~closed["ReadBatch"]
    /\ unmaps' = IF buf["ReadBatch"] # NoMap
                 THEN Munmap(unmaps, buf["ReadBatch"]) ELSE unmaps
    /\ bcall' = [name |-> "ReadBatch", cursor |-> "ReadBatch"]
    /\ nBufCalls' = nBufCalls + 1
    /\ bpc' = "sent"
    /\ UNCHANGED <<buf, bufLen, closed, nMaps, bresp, bret>>
    /\ UNCHANGED <<shmAll, runVars, exchVars, auxVars>>

\* KVWorkerClient::RangeQuery up to SendWithResponse:
\* if (*buf && *bufLen > 0) Munmap(*buf, *bufLen)
ClientRangeQuerySend ==
    /\ bpc = "idle"
    /\ nBufCalls < MaxBufCalls
    /\ ~closed["RangeQuery"]
    /\ unmaps' = IF buf["RangeQuery"] # NoMap /\ bufLen["RangeQuery"] > 0
                 THEN Munmap(unmaps, buf["RangeQuery"]) ELSE unmaps
    /\ bcall' = [name |-> "RangeQuery", cursor |-> "RangeQuery"]
    /\ nBufCalls' = nBufCalls + 1
    /\ bpc' = "sent"
    /\ UNCHANGED <<buf, bufLen, closed, nMaps, bresp, bret>>
    /\ UNCHANGED <<shmAll, runVars, exchVars, auxVars>>

\* queue_->SendWithResponse(sendmsg, recvmsg): the header's status and the
\* ReadBatchState of the entity.  The queue is not part of src/: the
\* response may carry any status and any state.
SendWithResponse ==
    /\ bpc = "sent"
    /\ \E st \in Statuses, next \in BOOLEAN, size \in 0 .. MaxSize :
          bresp' = [status |-> st, next |-> next, size |-> size]
    /\ bpc' = "answered"
    /\ UNCHANGED <<bcall, buf, bufLen, closed, nMaps, unmaps, bret, nBufCalls>>
    /\ UNCHANGED <<shmAll, runVars, exchVars, auxVars>>

\* the rest of KVWorkerClient::ReadBatch and KVWorkerClient::RangeQuery:
\* if (status != KVStatusSuccess) return false; *bufLen = size; size == 0:
\* *buf = nullptr; otherwise ShmOpen, *buf = Mmap(...); return next
ClientBatchReturn ==
    /\ bpc = "answered"
    /\ LET c == bcall.cursor IN
       IF bresp.status # "Success"
       THEN /\ bret' = FALSE
            /\ UNCHANGED <<buf, bufLen, nMaps>>
       ELSE /\ bret' = bresp.next
            /\ bufLen' = [bufLen EXCEPT ![c] = bresp.size]
            /\ IF bresp.size = 0
               THEN /\ buf' = [buf EXCEPT ![c] = NoMap]
                    /\ UNCHANGED nMaps
               ELSE /\ nMaps' = nMaps + 1
                    /\ buf' = [buf EXCEPT ![c] = nMaps + 1]
    /\ bpc' = "idle"
    /\ UNCHANGED <<bcall, closed, unmaps, bresp, nBufCalls>>
    /\ UNCHANGED <<shmAll, runVars, exchVars, auxVars>>

\* KVWorkerClient::CloseCursor: if (args->buf) Munmap(args->buf,
\* READBATCHSIZE); ShmUnlink(name); Send.  The cursor is not used again.
ClientCloseCursor ==
    /\ bpc = "idle"
    /\ nBufCalls < MaxBufCalls
    /\ ~closed["ReadBatch"]
    /\ unmaps' = IF buf["ReadBatch"] # NoMap
                 THEN Munmap(unmaps, buf["ReadBatch"]) ELSE unmaps
    /\ closed' = [closed EXCEPT !["ReadBatch"] = TRUE]
    /\ bcall' = [name |-> "CloseCursor", cursor |-> "ReadBatch"]
    /\ nBufCalls' = nBufCalls + 1
    /\ UNCHANGED <<bpc, buf, bufLen, nMaps, bresp, bret>>
    /\ UNCHANGED <<shmAll, runVars, exchVars, auxVars>>

\* KVWorkerClient::ClearRangeQuery: if (*buf && *bufLen > 0) Munmap(*buf,
\* *bufLen); Send.  The cursor is not used again.
ClientClearRangeQuery ==
    /\ bpc = "idle"
    /\ nBufCalls < MaxBufCalls
    /\ ~closed["RangeQuery"]
    /\ unmaps' = IF buf["RangeQuery"] # NoMap /\ bufLen["RangeQuery"] > 0
                 THEN Munmap(unmaps, buf["RangeQuery"]) ELSE unmaps
    /\ closed' = [closed EXCEPT !["RangeQuery"] = TRUE]
    /\ bcall' = [name |-> "ClearRangeQuery", cursor |-> "RangeQuery"]
    /\ nBufCalls' = nBufCalls + 1
    /\ UNCHANGED <<bpc, buf, bufLen, nMaps, bresp, bret>>
    /\ UNCHANGED <<shmAll, runVars, exchVars, auxVars>>

BufNext ==
    \/ ClientReadBatchSend
    \/ ClientRangeQuerySend
    \/ SendWithResponse
    \/ ClientBatchReturn
    \/ ClientCloseCursor
    \/ ClientClearRangeQuery

SpecBuf == Init /\ [][BufNext]_vars

\* ------------------------------------------------ named shared segments
\* what the actions on named segments leave alone
notSeg == <<shmAll, runVars, exchVars, bufVars, tdVars, launchVars, shapeVars,
           intrVars>>

\* the storage thread is about to set up the control block, the worker is
\* in its loop, and crashed processes may have left any of the names behind
SegInit ==
    /\ ShmInit
    /\ RunOff
    /\ TdOff
    /\ LaunchOff
    /\ ShapeOff
    /\ IntrOff
    /\ leftovers \in SUBSET SegNames
    /\ segs = [n \in SegNames |-> IF n \in leftovers THEN "stale" ELSE "absent"]
    /\ bound = [n \in SegNames |-> None]
    /\ segPc = [p \in SegProcs |->
                  IF p = "thread" THEN "ctl_unlink" ELSE "idle"]
    /\ segI = 0
    /\ segKey = NoKey
    /\ segSize = 0
    /\ lastShm = [p \in SegProcs |-> NoShmCall]
    /\ nSegMsgs = 0

\* ShmUnlink(name): shm_unlink removes the name; when there is none the
\* wrapper warns and returns
ShmUnlink(p, n) ==
    /\ segs' = [segs EXCEPT ![n] = "absent"]
    /\ lastShm' = [lastShm EXCEPT ![p] = [call |-> "unlink", name |-> n]]

\* ShmOpen(name, O_CREAT | O_RDWR [| O_EXCL]): shm_open makes the segment
\* when the name is free; when it is taken, O_EXCL makes the call fail
\* (ereport(ERROR)) and without O_EXCL the existing segment is opened
ShmOpenCreat(p, n, excl) ==
    /\ segs' = [segs EXCEPT ![n] = IF @ = "absent" THEN "fresh" ELSE @]
    /\ bound' = [bound EXCEPT ![n] = IF segs[n] = "absent" THEN "fresh"
                                      ELSE IF excl THEN "failed"
                                      ELSE segs[n]]
    /\ lastShm' = [lastShm EXCEPT ![p] = [call |-> "create", name |-> n]]

\* KVStorageThreadFun: ShmUnlink(BACKFILE)
ThreadUnlinkCtl ==
    /\ segPc["thread"] = "ctl_unlink"
    /\ ShmUnlink("thread", <<"ctl", 0>>)
    /\ segPc' = [segPc EXCEPT !["thread"] = "ctl_open"]
    /\ UNCHANGED <<leftovers, bound, segI, segKey, segSize, nSegMsgs, notSeg>>

\* KVStorageThreadFun: ShmOpen(BACKFILE, O_CREAT | O_RDWR | O_EXCL), then
\* Mmap, Ftruncate, Fclose, the SemInits and InitResponseArea's i = 0
ThreadOpenCtl ==
    /\ segPc["thread"] = "ctl_open"
    /\ ShmOpenCreat("thread", <<"ctl", 0>>, TRUE)
    /\ segI' = 0
    /\ segPc' = [segPc EXCEPT !["thread"] = "rsp_unlink"]
    /\ UNCHANGED <<leftovers, segKey, segSize, nSegMsgs, notSeg>>

\* fault variant of ThreadUnlinkRsp: the name is not unlinked
ThreadUnlinkRspSkipped ==
    /\ segPc["thread"] = "rsp_unlink"
    /\ segI < RESPONSEQUEUELENGTH
    /\ segPc' = [segPc EXCEPT !["thread"] = "rsp_open"]
    /\ UNCHANGED <<leftovers, segs, lastShm, bound, segI, segKey, segSize,
                   nSegMsgs, notSeg>>

\* InitResponseArea: ShmUnlink(RESPONSEFILE i)
ThreadUnlinkRsp ==
    /\ segPc["thread"] = "rsp_unlink"
    /\ segI < RESPONSEQUEUELENGTH
    /\ ShmUnlink("thread", <<"rsp", segI>>)
    /\ segPc' = [segPc EXCEPT !["thread"] = "rsp_open"]
    /\ UNCHANGED <<leftovers, bound, segI, segKey, segSize, nSegMsgs, notSeg>>

\* InitResponseArea: ShmOpen(RESPONSEFILE i, O_CREAT | O_RDWR | O_EXCL),
\* Mmap, Ftruncate, Fclose, i++
ThreadOpenRsp ==
    /\ segPc["thread"] = "rsp_open"
    /\ ShmOpenCreat("thread", <<"rsp", segI>>, TRUE)
    /\ segI' = segI + 1
    /\ segPc' = [segPc EXCEPT !["thread"] =
                    IF segI + 1 < RESPONSEQUEUELENGTH THEN "rsp_unlink"
                    ELSE "done"]
    /\ UNCHANGED <<leftovers, segKey, segSize, nSegMsgs, notSeg>>

\* KVWorker::ReadBatch and KVWorker::RangeQuery up to the name of the
\* segment; RangeQuery has read state.size by then
WorkerSegRecv ==
    /\ segPc["worker"] = "idle"
    /\ nSegMsgs < MaxSegMsgs
    /\ nSegMsgs' = nSegMsgs + 1
    /\ \E k \in Keys, size \in 0 .. MaxSize :
          /\ segKey' = k
          /\ \/ segPc' = [segPc EXCEPT !["worker"] = "rb_unlink"] /\ segSize' = 0
             \/ segPc' = [segPc EXCEPT !["worker"] = "rq_unlink"] /\
                segSize' = size
    /\ UNCHANGED <<leftovers, segs, bound, segI, lastShm, notSeg>>

\* KVWorker::ReadBatch: ShmUnlink(name)
WorkerUnlinkBatch ==
    /\ segPc["worker"] = "rb_unlink"
    /\ ShmUnlink("worker", <<"rb", segKey>>)
    /\ segPc' = [segPc EXCEPT !["worker"] = "rb_open"]
    /\ UNCHANGED <<leftovers, bound, segI, segKey, segSize, nSegMsgs, notSeg>>

\* KVWorker::ReadBatch: ShmOpen(name, O_CREAT | O_RDWR) and the rest of the
\* handler
WorkerOpenBatch ==
    /\ segPc["worker"] = "rb_open"
    /\ ShmOpenCreat("worker", <<"rb", segKey>>, FALSE)
    /\ segPc' = [segPc EXCEPT !["worker"] = "idle"]
    /\ UNCHANGED <<leftovers, segI, segKey, segSize, nSegMsgs, notSeg>>

\* KVWorker::RangeQuery: ShmUnlink(name); with state.size = 0 no segment is
\* made and the handler goes on to its answer
WorkerUnlinkRange ==
    /\ segPc["worker"] = "rq_unlink"
    /\ ShmUnlink("worker", <<"rq", segKey>>)
    /\ segPc' = [segPc EXCEPT !["worker"] =
                    IF segSize > 0 THEN "rq_open" ELSE "idle"]
    /\ UNCHANGED <<leftovers, bound, segI, segKey, segSize, nSegMsgs, notSeg>>

\* KVWorker::RangeQuery: if (state.size > 0) ShmOpen(name, O_CREAT | O_RDWR)
\* and the rest of the handler
WorkerOpenRange ==
    /\ segPc["worker"] = "rq_open"
    /\ ShmOpenCreat("worker", <<"rq", segKey>>, FALSE)
    /\ segPc' = [segPc EXCEPT !["worker"] = "idle"]
    /\ UNCHANGED <<leftovers, segI, segKey, segSize, nSegMsgs, notSeg>>

\* KVWorker::ClearRangeQuery: ShmUnlink(name) of a registered key
WorkerUnlinkCleared ==
    /\ segPc["worker"] = "idle"
    /\ nSegMsgs < MaxSegMsgs
    /\ nSegMsgs' = nSegMsgs + 1
    /\ \E k \in Keys :
          /\ bound[<<"rq", k>>] # None
          /\ ShmUnlink("worker", <<"rq", k>>)
          /\ segKey' = k
    /\ UNCHANGED <<leftovers, bound, segPc, segI, segSize, notSeg>>

\* KVWorkerClient::CloseCursor: ShmUnlink(name), in the client's process
ClientUnlinkBatch ==
    /\ lastShm["client"] = NoShmCall
    /\ \E k \in Keys :
          /\ bound[<<"rb", k>>] # None
          /\ ShmUnlink("client", <<"rb", k>>)
    /\ UNCHANGED <<leftovers, bound, segPc, segI, segKey, segSize, nSegMsgs,
                   notSeg>>

SegNext ==
    \/ ThreadUnlinkCtl
    \/ ThreadOpenCtl
    \/ ThreadUnlinkRsp
    \/ ThreadOpenRsp
    \/ WorkerSegRecv
    \/ WorkerUnlinkBatch
    \/ WorkerOpenBatch
    \/ WorkerUnlinkRange
    \/ WorkerOpenRange
    \/ WorkerUnlinkCleared
    \/ ClientUnlinkBatch

SpecSeg == SegInit /\ [][SegNext]_vars

\* --------------------------------------- cleanup_handler, call by call
notTd == <<shmAll, runVars, exchVars, bufVars, segVars, launchVars, shapeVars,
          intrVars>>

\* the teardown calls of cleanup_handler, in order: for each i
\* Munmap(ResponseQueue[i]) and ShmUnlink(RESPONSEFILE i); SemDestroy of
\* mutex, full, agent[0], agent[1], worker; for each i SemDestroy of
\* responseMutex[i] and responseSync[i]; Munmap(ptr); ShmUnlink(BACKFILE)
RECURSIVE PerChannel(_, _, _)
PerChannel(a, b, i) ==
    IF i = RESPONSEQUEUELENGTH THEN <<>>
    ELSE <<[kind |-> a.kind, what |-> <<a.what, i>>],
           [kind |-> b.kind, what |-> <<b.what, i>>]>>
         \o PerChannel(a, b, i + 1)

TeardownCalls ==
    PerChannel([kind |-> "unmap", what |-> "ResponseQueue"],
               [kind |-> "unlink", what |-> "RESPONSEFILE"], 0)
    \o <<[kind |-> "semdestroy", what |-> <<"mutex", 0>>],
         [kind |-> "semdestroy", what |-> <<"full", 0>>],
         [kind |-> "semdestroy", what |-> <<"agent", 0>>],
         [kind |-> "semdestroy", what |-> <<"agent", 1>>],
         [kind |-> "semdestroy", what |-> <<"worker", 0>>]>>
    \o PerChannel([kind |-> "semdestroy", what |-> "responseMutex"],
                  [kind |-> "semdestroy", what |-> "responseSync"], 0)
    \o <<[kind |-> "unmap", what |-> <<"ptr", 0>>],
         [kind |-> "unlink", what |-> <<"BACKFILE", 0>>]>>

\* what a wrapper of kv_posix.cc does when its system call returns -1:
\* ShmUnlink ereport(WARNING) and returns; Munmap, SemDestroy and Fclose
\* ereport(ERROR), which does not return to the caller
WrapperRaises(kind) ==
    CASE kind = "unlink" -> FALSE
      [] kind = "unmap" -> TRUE
      [] kind = "semdestroy" -> TRUE
      [] kind = "close" -> TRUE

\* cleanup_handler has sent TERMINATE, or found no worker, and starts on its
\* teardown calls
TdInit ==
    /\ ShmInit
    /\ RunOff
    /\ SegOff
    /\ LaunchOff
    /\ ShapeOff
    /\ IntrOff
    /\ tdPc = "run"
    /\ tdI = 1
    /\ tdLog = <<>>

\* one teardown call: the system call succeeds or fails; the wrapper returns
\* or raises
TeardownCall ==
    /\ tdPc = "run"
    /\ tdI <= Len(TeardownCalls)
    /\ \E failed \in BOOLEAN :
          LET c == TeardownCalls[tdI]
              raised == failed /\ WrapperRaises(c.kind)
          IN /\ tdLog' = Append(tdLog, [kind |-> c.kind, what |-> c.what,
                                        failed |-> failed, raised |-> raised])
             /\ tdPc' = IF raised THEN "aborted"
                        ELSE IF tdI = Len(TeardownCalls) THEN "done"
                        ELSE "run"
             /\ tdI' = IF raised THEN tdI ELSE tdI + 1
    /\ UNCHANGED notTd

SpecTd == TdInit /\ [][TeardownCall]_vars

\* ------------------------------------------------------ LaunchKVWorker
notLaunch == <<shmAll, runVars, exchVars, bufVars, segVars, tdVars, shapeVars,
              intrVars>>

MaxLaunches == 3
WorkerIds == 1 .. 2

\* what WaitForBackgroundWorkerStartup can return
BgwStatuses == {"BGWH_STARTED", "BGWH_STOPPED", "BGWH_POSTMASTER_DIED"}

\* the caller enters LaunchKVWorker: bgw is filled in, handle = nullptr
LaunchKVWorker ==
    /\ lPc = "idle"
    /\ Len(lLog) < MaxLaunches
    /\ \E w \in WorkerIds : lWorker' = w
    /\ lHandle' = nullptr
    /\ lStatus' = None
    /\ lAttempts' = 0
    /\ lPc' = "register"
    /\ UNCHANGED <<lLog, notLaunch>>

\* RegisterDynamicBackgroundWorker(&bgw, &handle): on failure the function
\* returns nullptr at once
LaunchRegister ==
    /\ lPc = "register"
    /\ lAttempts' = lAttempts + 1
    /\ \E registered \in BOOLEAN :
          IF registered
          THEN /\ lHandle' = lWorker
               /\ lPc' = "wait"
               /\ UNCHANGED lLog
          ELSE /\ lHandle' = nullptr
               /\ lPc' = "idle"
               /\ lLog' = Append(lLog, [worker |-> lWorker,
                                        registered |-> FALSE,
                                        attempts |-> lAttempts + 1,
                                        status |-> None,
                                        warned |-> FALSE,
                                        ret |-> nullptr])
    /\ UNCHANGED <<lWorker, lStatus, notLaunch>>

\* WaitForBackgroundWorkerStartup(handle, &pid), the two warnings, and
\* return handle
LaunchWait ==
    /\ lPc = "wait"
    /\ \E status \in BgwStatuses :
          /\ lStatus' = status
          /\ lLog' = Append(lLog, [worker |-> lWorker,
                                   registered |-> TRUE,
                                   attempts |-> lAttempts,
                                   status |-> status,
                                   warned |-> status # "BGWH_STARTED",
                                   ret |-> lHandle])
    /\ lPc' = "idle"
    /\ UNCHANGED <<lWorker, lHandle, lAttempts, notLaunch>>

LaunchNext ==
    \/ LaunchKVWorker
    \/ LaunchRegister
    \/ LaunchWait

SpecLaunch == Init /\ [][LaunchNext]_vars

\* ------------------------------- the call shape of every opcode's stub
notShape == <<shmAll, runVars, exchVars, bufVars, segVars, tdVars, launchVars,
             intrVars>>

MaxShCalls == 3

\* the opcodes that have a client stub and a handler
StubOps ==
    {"KVOpOpen", "KVOpClose", "KVOpCount", "KVOpPut", "KVOpGet", "KVOpDel",
     "KVOpLoad", "KVOpReadBatch", "KVOpDelCursor", "KVOpRangeQuery",
     "KVOpClearRangeQuery", "KVOpTerminate"}

\* KVWorkerClient of server/kv_worker.cc: the stubs that call
\* SendWithResponse, or Send and then Recv (Get)
ServerClientWaits ==
    {"KVOpCount", "KVOpPut", "KVOpGet", "KVOpDel", "KVOpReadBatch",
     "KVOpRangeQuery"}

\* KVWorker of server/kv_worker.cc: the handlers that call queue_->Send on
\* every path
ServerWorkerRespondsAlsoDelCursor ==
    {"KVOpCount", "KVOpPut", "KVOpGet", "KVOpDel", "KVOpReadBatch",
     "KVOpRangeQuery", "KVOpDelCursor"}

ServerWorkerResponds ==
    {"KVOpCount", "KVOpPut", "KVOpGet", "KVOpDel", "KVOpReadBatch",
     "KVOpRangeQuery"}

\* KVWorkerClient of kv_worker.cc: Open, Close and CloseCursor also call
\* SendWithResponse
LegacyClientWaits ==
    {"KVOpOpen", "KVOpClose", "KVOpCount", "KVOpPut", "KVOpGet", "KVOpDel",
     "KVOpReadBatch", "KVOpDelCursor", "KVOpRangeQuery"}

\* KVWorker of kv_worker.cc: Open, Close and CloseCursor also call
\* channel->Send
LegacyWorkerResponds ==
    {"KVOpOpen", "KVOpClose", "KVOpCount", "KVOpPut", "KVOpGet", "KVOpDel",
     "KVOpReadBatch", "KVOpDelCursor", "KVOpRangeQuery"}

ClientWaits(v, o) ==
    o \in (IF v = "server" THEN ServerClientWaits ELSE LegacyClientWaits)

WorkerResponds(v, o) ==
    o \in (IF v = "server" THEN ServerWorkerResponds
           ELSE LegacyWorkerResponds)

\* either variant is compiled
ShapeInit ==
    /\ ShmInit
    /\ RunOff
    /\ SegOff
    /\ TdOff
    /\ LaunchOff
    /\ IntrOff
    /\ shVariant \in Variants
    /\ ShapeIdle

\* a stub that waits: lease a response channel, put its id in the header,
\* send, and wait for the response (SendWithResponse, or the same calls
\* written out in Get)
StubSendWithResponse(c, o) ==
    /\ shPc[c] = "idle"
    /\ nShCalls < MaxShCalls
    /\ ClientWaits(shVariant, o)
    /\ \E i \in Channels :
          /\ shLease[i] = NoClient
          /\ shLease' = [shLease EXCEPT ![i] = c]
          /\ shChan' = [shChan EXCEPT ![c] = i]
          /\ shQueue' = Append(shQueue, [op |-> o, rpsId |-> i, from |-> c,
                                         id |-> nShCalls + 1])
    /\ shPc' = [shPc EXCEPT ![c] = "waiting"]
    /\ nShCalls' = nShCalls + 1
    /\ UNCHANGED <<shVariant, shRsp, shRunning, shHandled, notShape>>

\* a stub that does not wait: send and return; the header's rpsId is
\* whatever SimpleMessage left there
StubSend(c, o) ==
    /\ shPc[c] = "idle"
    /\ nShCalls < MaxShCalls
    /\ o \in StubOps
    /\ ~ClientWaits(shVariant, o)
    /\ \E i \in Channels :
          shQueue' = Append(shQueue, [op |-> o, rpsId |-> i, from |-> c,
                                     id |-> nShCalls + 1])
    /\ nShCalls' = nShCalls + 1
    /\ UNCHANGED <<shVariant, shPc, shChan, shLease, shRsp, shRunning,
                   shHandled, notShape>>

\* one turn of Run: receive the header, dispatch on the opcode; the handler
\* sends a message to msg.hdr.rpsId or sends nothing; Terminate stops the
\* loop
RunHandle ==
    /\ shRunning
    /\ shQueue # <<>>
    /\ LET msg == Head(shQueue)
           responds == WorkerResponds(shVariant, msg.op)
       IN /\ shQueue' = Tail(shQueue)
          /\ shRsp' = IF responds
                      THEN [shRsp EXCEPT ![msg.rpsId] = @ \cup {msg.from}]
                      ELSE shRsp
          /\ shHandled' = shHandled \cup {<<msg.op, responds>>}
          /\ shRunning' = (msg.op # "KVOpTerminate")
    /\ UNCHANGED <<shVariant, shPc, shChan, shLease, nShCalls, notShape>>

\* the waiting stub receives the response, gives the channel back and
\* returns
StubReturn(c) ==
    /\ shPc[c] = "waiting"
    /\ shRsp[shChan[c]] # {}
    /\ shRsp' = [shRsp EXCEPT ![shChan[c]] = {}]
    /\ shLease' = [shLease EXCEPT ![shChan[c]] = NoClient]
    /\ shPc' = [shPc EXCEPT ![c] = "idle"]
    /\ UNCHANGED <<shVariant, shChan, shQueue, shRunning, shHandled,
                   nShCalls, notShape>>

ShapeNext ==
    \/ \E c \in ShClients, o \in StubOps : StubSendWithResponse(c, o)
    \/ \E c \in ShClients, o \in StubOps : StubSend(c, o)
    \/ RunHandle
    \/ \E c \in ShClients : StubReturn(c)

SpecShape == ShapeInit /\ [][ShapeNext]_vars

\* ------------------------------------- SemWait interrupted by a signal
\* SemWait of kv_posix.cc returns -1 without the semaphore when sem_wait
\* fails with EINTR, which happens while the caller is blocked; the callers
\* in kv_shm.c do not look at the value returned and go on.
notIntr == <<runVars, exchVars, bufVars, segVars, tdVars, launchVars,
            shapeVars, teardown>>

MaxIntr == 1

\* a signal interrupts a blocked wait; explored for the signals that
\* arrive while every client is inside a request
SignalArrives ==
    /\ nIntr < MaxIntr
    /\ \A c \in Clients : proc[c].pc # "idle"

\* a request function: SemWait(&ptr->mutex) returns -1
AcquireMutexInterrupted(c) ==
    /\ proc[c].pc = "mutex"
    /\ ~SemCanWait(mutex)
    /\ SignalArrives
    /\ nIntr' = nIntr + 1
    /\ \E f \in ClientFuncs, r \in Rels, kl \in KeyLens, vl \in ValLens :
          /\ proc[c].ptr \/ f = "OPEN"
          /\ f # "PUT" => vl = 0
          /\ proc' = [proc EXCEPT
                ![c].func = f,
                ![c].body = Body(f, r, c, kl, vl),
                ![c].pc = IF f = "OPEN" /\ ~workerProcessCreated
                          THEN "agent_post" ELSE "full"]
    /\ acquireLog' = Append(acquireLog, c)
    /\ UNCHANGED <<shmVars, wpc, wcmd, kvWorkerPid, kvTableHash, kvIterHash,
                   areaWriter, nReq, nStarted, writtenLog, dispatchLog,
                   signalLog, notIntr>>

\* a request function or cleanup_handler: SemWait(&ptr->full) returns -1
WaitFullInterrupted(p) ==
    /\ proc[p].pc = "full"
    /\ ~SemCanWait(full)
    /\ SignalArrives
    /\ nIntr' = nIntr + 1
    /\ proc' = [proc EXCEPT ![p].pc = "write_func"]
    /\ UNCHANGED <<shmVars, wpc, wcmd, kvWorkerPid, kvTableHash, kvIterHash,
                   ghostVars, notIntr>>

\* KVWorkerMain: SemWait(&ptr->worker) returns -1
WorkerWaitInterrupted ==
    /\ wpc = "wait"
    /\ ~SemCanWait(worker)
    /\ SignalArrives
    /\ nIntr' = nIntr + 1
    /\ wpc' = "copy"
    /\ UNCHANGED <<shmVars, proc, wcmd, kvWorkerPid, kvTableHash, kvIterHash,
                   ghostVars, notIntr>>

IntrNext ==
    \/ Next
    \/ \E c \in Clients : AcquireMutexInterrupted(c)
    \/ \E p \in Producers : WaitFullInterrupted(p)
    \/ WorkerWaitInterrupted

SpecIntr == Init /\ [][IntrNext]_vars

\* ------------------------------------------------- properties: kv_shm.c
\* positions of a producer between its SemWait(full) and its SemPost(worker)
\* at which the area holds, or is about to hold, its own command
Writing(p) == proc[p].pc \in {"lease", "write_body", "post_worker"}

\* positions at which a producer holds a response channel
LeasePcs == {"write_body", "put_err_mutex", "put_err_release", "post_worker",
             "post_mutex", "wait_resp", "read_resp", "release",
             "cl_wait_resp"}
Lessee(p) == proc[p].pc \in LeasePcs
LesseesOf(i) == {p \in Producers : Lessee(p) /\ proc[p].responseId = i}

\* a client that has returned from SemWait(responseSync[responseId])
Woken(c) == proc[c].pc \in {"read_resp", "release"}

\* index in writtenLog of the last command of producer p, 0 if there is none
LastWritten(p) ==
    LET ks == {k \in 1 .. Len(writtenLog) : writtenLog[k].owner = p} IN
    IF ks = {} THEN 0 ELSE CHOOSE k \in ks : \A j \in ks : j <= k

IsPrefix(s, t) ==
    /\ Len(s) <= Len(t)
    /\ \A k \in 1 .. Len(s) : s[k] = t[k]

C3_LeaseExclusive ==
    /\ \A p, q \in Producers :
          (p # q /\ Lessee(p) /\ Lessee(q)) =>
              proc[p].responseId # proc[q].responseId
    /\ \A i \in Channels :
          /\ responseMutex[i] \in {0, 1}
          /\ proc[Sup].pc \notin {"cl_teardown", "s_done"} =>
                responseMutex[i] = 1 - Cardinality(LesseesOf(i))

\* every channel is leased, by different producers, and one more producer
\* scans for a free channel
C3_Witness ==
    /\ \A i \in Channels : responseMutex[i] = 0 /\ LesseesOf(i) # {}
    /\ \E p \in Producers : proc[p].pc = "lease"

ShutDown == proc[Sup].pc \notin {"s_wait", "s_start", "s_post"}

\* C5: under fair scheduling, with a worker that ends in no error and no
\* shutdown of the postmaster, every request a client has started returns.
C5_EveryRequestReturns ==
    \A c \in Clients :
        (proc[c].pc # "idle") ~> (proc[c].pc = "idle" \/ wpc = "dead" \/ ShutDown)

Owners(log) == [k \in 1 .. Len(log) |-> log[k].owner]

InCritical(p) ==
    proc[p].pc \in {"agent_post", "agent_wait", "full", "write_func", "lease",
                    "write_body", "put_err_mutex", "post_worker",
                    "post_mutex", "cl_wait_resp"}

TerminateTaken == wpc = "dispatch" /\ wcmd.func = "TERMINATE"

\* what holds in every state about TERMINATE: it is the last command the
\* worker dispatches, the worker leaves the loop only by it, and it then has
\* posted the channel named in the command, which is the sender's
TerminateSafe ==
    /\ \A k \in 1 .. Len(dispatchLog) - 1 : dispatchLog[k].func # "TERMINATE"
    /\ wpc \in {"wait", "copy", "signal", "dead"} =>
          \A k \in 1 .. Len(dispatchLog) : dispatchLog[k].func # "TERMINATE"
    /\ wpc \in {"closing", "exited"} =>
          /\ Len(dispatchLog) > 0
          /\ dispatchLog[Len(dispatchLog)].func = "TERMINATE"
          /\ Len(signalLog) = Len(dispatchLog)
          /\ signalLog[Len(signalLog)] = dispatchLog[Len(dispatchLog)].responseId
          /\ signalLog[Len(signalLog)] = proc[Sup].responseId
          /\ proc[Sup].pc = "cl_wait_resp" =>
                responseSync[proc[Sup].responseId] = 1

Processed == Len(received) - (IF rpc = "dispatch" THEN 1 ELSE 0)

\* how many of the first n received messages carry opcode o
CountOp(o, n) == Cardinality({k \in 1 .. n : received[k] = o})

\* what holds in every state about the end of the loop: Run has returned
\* only after a Terminate, there is one Terminate at most and it is the last
\* message received, and until it is processed the loop goes on
RunLoopSafe ==
    /\ CountOp("KVOpTerminate", Processed) <= 1
    /\ rpc = "exited" =>
          /\ CountOp("KVOpTerminate", Processed) = 1
          /\ ~running
    /\ CountOp("KVOpTerminate", Processed) = 1 =>
          /\ received[Len(received)] = "KVOpTerminate"
          /\ Processed = Len(received)
          /\ rpc \in {"test", "exited"}
          /\ ~running
    /\ (CountOp("KVOpTerminate", Processed) = 0 /\ rpc # "new") =>
          /\ running
          /\ rpc # "exited"

NoExcessClose ==
    \A n \in 0 .. Processed :
        CountOp("KVOpClose", n) <= CountOp("KVOpOpen", n)

\* C10: after any sequence of Open and Close commands in which no Close
\* comes without an Open before it, the reference count is the number of
\* Opens processed minus the number of Closes processed.
C10_RefIsOpensMinusCloses ==
    NoExcessClose =>
        /\ ref >= 0
        /\ ref = CountOp("KVOpOpen", Processed) - CountOp("KVOpClose", Processed)

\* C11: the reference count never gates the connection.  There is at most
\* one OpenConn; while the worker object lives the connection it opened
\* stays open whatever the count is, and CloseConn is called once, by the
\* destructor, after Run has returned.
C11_CloseKeepsConnection ==
    /\ nOpenConn <= 1
    /\ ~destroyed =>
          /\ nCloseConn = 0
          /\ conn = (nOpenConn = 1)
    /\ destroyed =>
          /\ rpc = "exited"
          /\ ~conn
          /\ nCloseConn = nOpenConn

\* every opener has closed (the count is back to 0, and below what the
\* Opens alone make it) and the worker has gone on to serve a Get on the
\* connection, which is still open
C11_Witness ==
    /\ received = <<"KVOpOpen", "KVOpOpen", "KVOpClose", "KVOpGet">>
    /\ variant = "legacy"
    /\ ref = 0
    /\ rpc = "test"
    /\ conn

\* a state of the range read that makes the handler read again
EmptyMore(st) == st.next /\ st.size = 0
Answered(st) == ~EmptyMore(st)

\* the chunks of the scenario: two empty ones with more to come, one with
\* data, and the empty one that ends the data
ScenarioReads ==
    <<[next |-> TRUE, size |-> 0], [next |-> TRUE, size |-> 0],
      [next |-> TRUE, size |-> 1], [next |-> FALSE, size |-> 0]>>

\* C12: RangeQuery never answers (hasMore, size 0): what it has sent is what
\* RangeQueryRead returned with the empty-but-more states left out, in
\* order.  While the handler is in its loop every state read since the last
\* answer is such a state.  For the scenario, the client's calls return a
\* batch with more to come and then the end, and nothing else.
C12_RangeQuerySkipsEmptyChunks ==
    /\ rqReplies = SelectSeq(rqReads, Answered)
    /\ \A k \in 1 .. Len(rqReplies) : ~EmptyMore(rqReplies[k])
    /\ (rpc # "rq_read" /\ rqReads # <<>>) =>
          Answered(rqReads[Len(rqReads)])
    /\ (rqReads = ScenarioReads) =>
          /\ Len(rqReplies) = 2
          /\ ClientRangeQuery(rqReplies[1]) =
                [ret |-> TRUE, bufLen |-> 1, buf |-> "mapped"]
          /\ ClientRangeQuery(rqReplies[2]) =
                [ret |-> FALSE, bufLen |-> 0, buf |-> "null"]

\* the scenario has run: two RangeQuery messages were answered from four
\* reads
C12_Witness ==
    /\ rqReads = ScenarioReads
    /\ CountOp("KVOpRangeQuery", Len(received)) = 2
    /\ rpc = "test"
    /\ Len(rqReplies) = 2

\* the command the worker's switch handled last
LastDispatched == dispatchLog[Len(dispatchLog)]

\* C13: closing a cursor raises no error, whether or not the key is
\* registered: the worker is never ended by a DELITER command.
C13_UnknownCloseIsNoOp ==
    ~(wpc = "dead" /\ dispatchLog # <<>> /\ LastDispatched.func = "DELITER")

\* class KVWorker: a CloseCursor or ClearRangeQuery for a key that is not
\* registered changes no registry and releases nothing, and the worker goes
\* back to its loop
KeyedNoOp ==
    (/\ rpc = "dispatch"
     /\ \/ op = "KVOpDelCursor" /\ cursors[key] = NoIter
        \/ op = "KVOpClearRangeQuery" /\ ~ranges[key])
    => /\ cursors' = cursors
       /\ ranges' = ranges
       /\ nDelIter' = nDelIter
       /\ running' = running
       /\ rpc' = "test"

\* keys that are registered in cursors_
Registered == {k \in Keys : cursors[k] # NoIter}

\* C14: a key is in the cursor registry exactly when the last cursor message
\* handled for it is a ReadBatch; the iterators of different keys differ, are
\* live, and come from GetIter; and a ReadBatch for a registered key leaves
\* the key's iterator as it is (no GetIter), so the iterator is created on
\* the first ReadBatch after a CloseCursor and never again.
C14_RegistryInv ==
    /\ \A k \in Keys : (cursors[k] # NoIter) <=> (lastCursorOp[k] = "read")
    /\ \A k \in Registered :
          /\ cursors[k] \in 1 .. nIter
          /\ nDelIter[cursors[k]] = 0
    /\ \A k, l \in Registered : k # l => cursors[k] # cursors[l]

C14_ReuseStep ==
    \A k \in Keys :
        (cursors[k] # NoIter /\ cursors'[k] # cursors[k]) =>
            /\ cursors'[k] = NoIter
            /\ op = "KVOpDelCursor"
            /\ key = k
            /\ nIter' = nIter

C14_CursorRegistry == []C14_RegistryInv /\ [][C14_ReuseStep]_vars

\* a key is read twice with one iterator, closed, and read again with a new
\* one, while no other key is registered
C14_Witness ==
    /\ received = <<"KVOpOpen", "KVOpReadBatch", "KVOpReadBatch",
                    "KVOpDelCursor", "KVOpReadBatch">>
    /\ rpc = "test"
    /\ nIter = 2
    /\ nDelIter[1] = 1
    /\ Registered = {key}
    /\ cursors[key] = 2

\* C15: when the worker has exited and its object is destroyed, every
\* iterator GetIter has handed out has been released by DelIter, once.
C15_ExitClosesCursors ==
    /\ \A it \in 1 .. nIter : nDelIter[it] <= 1
    /\ destroyed => \A it \in 1 .. nIter : nDelIter[it] = 1

\* the terminal answer of a cursor: no more records and an empty batch
TerminalReply(k) ==
    [op |-> "KVOpReadBatch", key |-> k, status |-> "Success",
     next |-> FALSE, size |-> 0]

\* what the client has after such an answer, whatever its buffer was
TerminalAtClient(r) ==
    \A prev \in ClientBufs :
        ClientReadBatch(r, prev) = [ret |-> FALSE, bufLen |-> 0, buf |-> "null"]

\* the worker has just handled a ReadBatch
ReadBatchDone == rpc = "test" /\ op = "KVOpReadBatch"

\* C16: every ReadBatch is answered with Success and leaves its key
\* registered, and an answer without data leaves the client with a null
\* buffer; a first answer of (no more, 0 bytes) is the terminal one.  A
\* ReadBatch for a cursor whose iterator is at the end of the data gets the
\* terminal answer again and changes neither the registry nor the iterator.
C16_AnswerInv ==
    ReadBatchDone =>
        /\ reply.status = "Success"
        /\ reply.op = "KVOpReadBatch"
        /\ reply.key = key
        /\ cursors[key] # NoIter
        /\ nDelIter[cursors[key]] = 0
        /\ atEnd[cursors[key]] = ~reply.next
        /\ (~reply.next /\ reply.size = 0) =>
              /\ reply = TerminalReply(key)
              /\ TerminalAtClient(reply)

C16_ExhaustedStep ==
    (/\ rpc = "dispatch"
     /\ op = "KVOpReadBatch"
     /\ cursors[key] # NoIter
     /\ atEnd[cursors[key]]
     /\ rpc' # rpc)
    => /\ reply' = TerminalReply(key)
       /\ TerminalAtClient(reply')
       /\ cursors' = cursors
       /\ nIter' = nIter
       /\ atEnd' = atEnd
       /\ nDelIter' = nDelIter

C16_ExhaustedReadIsIdempotent ==
    []C16_AnswerInv /\ [][C16_ExhaustedStep]_vars

\* three ReadBatch calls on one cursor of an empty data set: each got the
\* terminal answer from the one iterator
C16_Witness ==
    /\ received = <<"KVOpOpen", "KVOpReadBatch", "KVOpReadBatch",
                    "KVOpReadBatch">>
    /\ ReadBatchDone
    /\ nIter = 1
    /\ atEnd[1]
    /\ reply = TerminalReply(key)
    /\ cursors[key] = 1

\* C17: the worker reads from a Put frame exactly the key and the value the
\* client wrote into it, with their lengths; the records the storage engine
\* holds are the ones the clients' successful calls left; and a Get returns
\* Success with the value last put for the key and its length, Failure if
\* there is none.
C17_PutGetRoundTrip ==
    /\ (fpc = "client" /\ call.op = "KVOpPut") =>
          decoded = [keyLen |-> Len(call.key), key |-> call.key,
                     valLen |-> Len(call.val), val |-> call.val]
    /\ fpc \in {"idle", "worker"} => store = model
    /\ (fpc = "idle" /\ callResult.op = "KVOpGet") =>
          /\ callResult.ok = model[call.key].present
          /\ callResult.ok =>
                /\ callResult.val = model[call.key].val
                /\ callResult.valLen = Len(model[call.key].val)

\* a Get has returned the empty value that was put for a two-byte key,
\* while a one-byte key holds a value that starts with the same byte
C17_Witness ==
    /\ fpc = "idle"
    /\ callResult = [op |-> "KVOpGet", ok |-> TRUE, valLen |-> 0, val |-> <<>>]
    /\ call.key = <<0, 0>>
    /\ model[<<0>>] = [present |-> TRUE, val |-> <<0, 1>>]

\* positions of PutRequest on its error path, after the length test
PutRejected(c) == proc[c].pc \in {"put_err_mutex", "put_err_release"}

\* C18: PutRequest rejects a frame exactly when it is longer than the
\* command area (a frame of BUFSIZE bytes goes to the worker), and a
\* rejected call has written none of its frame: the area does not hold the
\* rejected command.
C18_PutRejectedBeforeWrite ==
    \A c \in Clients :
        /\ (proc[c].func = "PUT" /\
            proc[c].pc \in {"post_worker", "post_mutex", "wait_resp"}) =>
              ~PutTooLong(proc[c].body)
        /\ PutRejected(c) =>
              /\ PutTooLong(proc[c].body)
              /\ ~(area.owner = c /\ area.func = "PUT" /\
                   area.body = proc[c].body)

\* the storage engine has declined the write the worker handled last: the
\* relation of the PUT or DELETE is in kvTableHash, which leaves the
\* engine's answer as the handler's only way to fail
WriteDeclined ==
    /\ dispatchLog # <<>>
    /\ LastDispatched.func \in {"PUT", "DELETE"}
    /\ kvTableHash[LastDispatched.body.relationId].found
    /\ wpc = "dead"

\* C19: a write the storage engine declines does not end the worker: the
\* worker answers on the request's channel and takes the next command.
C19_DeclinedWriteIsAnswered == ~WriteDeclined

\* C20: a message whose opcode is no enumerator of KVOperation is the last
\* one the worker handles: once it has been through the switch the loop is
\* over and no later message is received.
C20_UnknownOpcodeIsFatal ==
    \A k \in 1 .. Processed :
        received[k] = "KVOpUnknown" =>
            /\ ~running
            /\ k = Len(received)

\* C21: the worker notifies the manager of WorkerReady once, before it
\* receives a message, and of WorkerDesty once, after Run has returned and
\* before the worker object is deleted and the process ends.
C21_ReadyAndDestroyedOnce ==
    /\ IsPrefix(notes, <<"WorkerReady", "WorkerDesty">>)
    /\ rpc \notin {"new", "started"} => Notified("WorkerReady")
    /\ received # <<>> => Notified("WorkerReady")
    /\ Notified("WorkerDesty") => rpc = "exited"
    /\ destroyed => Notified("WorkerDesty")

\* C22: once cleanup_handler has returned, every response buffer has been
\* unmapped and unlinked once, the control block has been unmapped and
\* unlinked once, and each semaphore that KVStorageThreadFun initialised has
\* been destroyed once; before the handler's teardown nothing of this has
\* happened.
EachOnce ==
    [unmapped |-> [i \in Channels |-> 1],
     unlinked |-> [i \in Channels |-> 1],
     mutex |-> 1, full |-> 1, agent |-> [k \in 0 .. 1 |-> 1], worker |-> 1,
     responseMutex |-> [i \in Channels |-> 1],
     responseSync |-> [i \in Channels |-> 1],
     ctlUnmapped |-> 1, ctlUnlinked |-> 1]

C22_TeardownComplete ==
    IF proc[Sup].pc = "s_done"
    THEN teardown = EachOnce
    ELSE teardown = NoTeardown

\* the handler has returned after it had a worker process to terminate
C22_Witness ==
    /\ proc[Sup].pc = "s_done"
    /\ wpc = "exited"
    /\ nStarted = 1
    /\ teardown.responseSync = [i \in Channels |-> 1]

\* the handler has returned without a worker process ever started
C22_WitnessNoWorker ==
    /\ proc[Sup].pc = "s_done"
    /\ nStarted = 0
    /\ teardown.ctlUnlinked = 1

\* the worker has ended in the handler of the command of client c, and c
\* waits for the response
Orphaned(c) ==
    /\ wpc = "dead"
    /\ dispatchLog # <<>>
    /\ LastDispatched.owner = c
    /\ proc[c].pc = "wait_resp"

\* C23: a client whose command the worker took out of the area and then
\* died on stays in its wait on responseSync: no step of any process takes
\* it out of the wait, and the semaphore it waits on stays 0.
C23_OrphanStep ==
    \A c \in Clients :
        Orphaned(c) =>
            /\ Orphaned(c)'
            /\ responseSync[proc[c].responseId] = 0

Holders == {p \in Producers : InCritical(p)}

\* C24: at most one producer is between its wait on `mutex` and its post of
\* it, the semaphore's value is 0 or 1 and it is 0 while a producer is in
\* between; and the mutex is posted only by the step with which its holder
\* leaves.
C24_MutexInv ==
    /\ mutex \in {0, 1}
    /\ Cardinality(Holders) <= 1
    /\ Holders # {} => mutex = 0

C24_PostStep ==
    mutex' > mutex =>
        /\ mutex' = mutex + 1
        /\ \E p \in Holders : ~InCritical(p)'

WorkerWrites(i) ==
    /\ wpc = "dispatch"
    /\ wcmd.func \in ReadingFuncs
    /\ wcmd.responseId = i

\* client c copies its result out of the buffer of channel i
ClientReads(c, i) ==
    /\ proc[c].pc = "read_resp"
    /\ proc[c].responseId = i

\* C25: while the worker writes a channel's buffer the channel is leased by
\* the client whose command it handles, that client has not been signalled
\* and does not read; a client reads only the buffer of the channel it
\* leases, after the worker's signal for its command; worker and client, or
\* two clients, are never at the same buffer; and the buffer changes only
\* in the worker's handler for the channel's command.
C25_BufferInv ==
    /\ \A i \in Channels :
          WorkerWrites(i) =>
              /\ Lessee(wcmd.owner)
              /\ proc[wcmd.owner].responseId = i
              /\ proc[wcmd.owner].pc \in {"post_mutex", "wait_resp"}
              /\ responseSync[i] = 0
              /\ \A c \in Clients : ~ClientReads(c, i)
    /\ \A c \in Clients, i \in Channels :
          ClientReads(c, i) =>
              /\ Lessee(c)
              /\ LastWritten(c) > 0
              /\ LastWritten(c) <= Len(signalLog)
              /\ \A d \in Clients \ {c} : ~ClientReads(d, i)

C25_WriteStep ==
    \A i \in Channels :
        ResponseQueue'[i] # ResponseQueue[i] => WorkerWrites(i)

NoCallInProgress == \A c \in Clients : proc[c].pc = "idle"

\* C26: a client call that holds a channel gives it up only by returning,
\* and its return posts the channel's lock once, from 0 to 1, after the
\* call has copied its result; the lock of a channel is posted by nothing
\* else; so while no client call is in progress and cleanup_handler has
\* not leased a channel, every channel is free.
C26_FreeInv ==
    (NoCallInProgress /\ ~Lessee(Sup) /\
     proc[Sup].pc \notin {"cl_teardown", "s_done"}) =>
        \A i \in Channels : responseMutex[i] = 1

C26_ReleaseStep ==
    /\ \A c \in Clients :
          (Lessee(c) /\ ~Lessee(c)') =>
              /\ proc[c].pc \in {"release", "put_err_release"}
              /\ proc[c].pc' = "idle"
              /\ responseMutex[proc[c].responseId] = 0
              /\ responseMutex'[proc[c].responseId] = 1
    /\ \A i \in Channels :
          responseMutex'[i] > responseMutex[i] =>
              \E c \in Clients :
                  /\ Lessee(c)
                  /\ proc[c].responseId = i
                  /\ ~Lessee(c)'
    /\ \A c \in Clients :
          (proc[c].pc' = "release" /\ proc[c].pc # "release" /\
           proc[c].func \in ReadingFuncs) => proc[c].pc = "read_resp"

DefinedStatus == {"Success", "Failure", "Exception"}

\* C27: every response the worker has sent for a request carries Success,
\* Failure or Exception, never the placeholder status.
C27_ResponseStatusDefined ==
    fpc = "client" => response.status \in DefinedStatus

\* the worker is about to handle a RangeQuery message
AtRangeQuery == rpc = "dispatch" /\ op = "KVOpRangeQuery"

\* the worker is about to handle a ClearRangeQuery message
AtClearRangeQuery == rpc = "dispatch" /\ op = "KVOpClearRangeQuery"

\* C28: a key is registered exactly while it has a cached entry, the entry
\* holds handles made for that key and not yet released, and RangeQuery
\* reads with the cached entry.  ParseRangeQueryOptions is called only by a
\* RangeQuery whose key is not registered; a RangeQuery whose key is
\* registered creates nothing and uses the cached entry whatever options it
\* carries; and only ClearRangeQuery for the key ends a registration.
C28_EntryInv ==
    /\ \A k \in Keys :
          /\ ranges[k] <=> rangeEntry[k] # NoHandle
          /\ ranges[k] =>
                /\ rangeEntry[k] \in 1 .. nParse
                /\ rqHandles[rangeEntry[k]].key = k
                /\ rqHandles[rangeEntry[k]].cleared = 0
    /\ rpc = "rq_read" => (ranges[key] /\ entry = rangeEntry[key])

C28_ParseStep ==
    /\ nParse' # nParse => (AtRangeQuery /\ ~ranges[key])
    /\ (AtRangeQuery /\ ~ranges[key]) =>
          /\ nParse' = nParse + 1
          /\ ranges'[key]
    /\ (AtRangeQuery /\ ranges[key]) =>
          /\ nParse' = nParse
          /\ rqHandles' = rqHandles
          /\ rangeEntry' = rangeEntry
          /\ ranges' = ranges
          /\ entry' = rangeEntry[key]
    /\ \A k \in Keys :
          (ranges[k] /\ ~ranges'[k]) => (AtClearRangeQuery /\ key = k)

Released(k) ==
    {h \in 1 .. nParse : rqHandles[h].key = k /\ rqHandles[h].cleared > 0}

\* C29: ClearRangeQuery for a registered key releases the key's handles,
\* erases the key from the registry and unlinks its segment name, and
\* touches no other handle; no handle is released twice, and the released
\* handles are those no key is registered with.  A RangeQuery for a key
\* that was cleared makes a new pair of handles from the options it carries.
C29_HandleInv ==
    /\ \A h \in HandleIds :
          /\ rqHandles[h].cleared <= 1
          /\ h > nParse => rqHandles[h] = NoHandleRec
          /\ h <= nParse =>
                (rqHandles[h].cleared = 0 <=>
                    \E k \in Keys : rangeEntry[k] = h)
    /\ \A k \in Keys : segment[k] => ranges[k]

C29_ClearStep ==
    /\ (AtClearRangeQuery /\ ranges[key]) =>
          /\ rqHandles' = [rqHandles EXCEPT ![rangeEntry[key]].cleared = 1]
          /\ ~ranges'[key]
          /\ rangeEntry'[key] = NoHandle
          /\ ~segment'[key]
    /\ (AtRangeQuery /\ Released(key) # {} /\ ~ranges[key]) =>
          /\ entry' = nParse + 1
          /\ rangeEntry'[key] = entry'
          /\ rqHandles' = [rqHandles EXCEPT ![entry'] = Parsed(key, msgOpts)]

C29_ClearThenFresh == []C29_HandleInv /\ [][C29_ClearStep]_vars

\* a key was registered with one set of options and cleared, and a
\* RangeQuery for it that carries other options reads with new handles
C29_Witness ==
    /\ rpc = "rq_read"
    /\ entry = 2
    /\ rqHandles[1].key = key
    /\ rqHandles[1].cleared = 1
    /\ rqHandles[2] = Parsed(key, msgOpts)
    /\ rqHandles[1].opts # msgOpts

\* the pointer of cursor c is null or refers to a mapping that has not been
\* unmapped
BufValid(c) == buf[c] = NoMap \/ unmaps[buf[c]] = 0

Creates(p) ==
    /\ segPc[p] \in {"ctl_open", "rsp_open", "rb_open", "rq_open"}
    /\ segPc'[p] # segPc[p]

\* C31: what a process did to the segment names just before it creates
\* one is to unlink that very name, so the creation finds the name free:
\* no creation fails on, or opens, a segment that was there before.
C31_CreateInv ==
    \A n \in SegNames : bound[n] \in {None, "fresh"}

C31_CreateStep ==
    \A p \in SegProcs :
        Creates(p) =>
            /\ lastShm[p] = [call |-> "unlink", name |-> lastShm'[p].name]
            /\ segs[lastShm'[p].name] = "absent"

C31_UnlinkBeforeCreate == []C31_CreateInv /\ [][C31_CreateStep]_vars

\* every kind of name was left behind by a crashed process, and each has
\* been created anew
C31_Witness ==
    /\ \E k \in Keys : <<"rb", k>> \in leftovers /\ bound[<<"rb", k>>] = "fresh"
    /\ \E k \in Keys : <<"rq", k>> \in leftovers /\ bound[<<"rq", k>>] = "fresh"
    /\ <<"ctl", 0>> \in leftovers
    /\ \A i \in 0 .. RESPONSEQUEUELENGTH - 1 :
          <<"rsp", i>> \in leftovers /\ bound[<<"rsp", i>>] = "fresh"

\* C32: a teardown call that fails is logged and the wrapper returns: no
\* call of the cleanup sequence raises, and the sequence is never aborted.
C32_TeardownNeverAborts ==
    /\ tdPc # "aborted"
    /\ \A k \in 1 .. Len(tdLog) : ~tdLog[k].raised

\* C33: LaunchKVWorker makes one registration attempt and returns a null
\* handle whenever the worker was not registered or did not reach the
\* started state.
C33_FailedLaunchReturnsNull ==
    \A k \in 1 .. Len(lLog) :
        /\ lLog[k].attempts = 1
        /\ (~lLog[k].registered \/ lLog[k].status # "BGWH_STARTED")
               => lLog[k].ret = nullptr

\* C34: for every opcode the client stub waits for a response exactly when
\* the worker's handler sends one: a waiting client's message is still in
\* the queue or its response lies in the channel it leased, and every
\* response lies in a channel leased by the sender of the message it
\* answers.
C34_CallShapeAgreement ==
    /\ \A c \in ShClients :
           shPc[c] = "waiting" =>
               \/ \E k \in 1 .. Len(shQueue) :
                      shQueue[k].from = c /\ shQueue[k].rpsId = shChan[c]
               \/ shRsp[shChan[c]] = {c}
    /\ \A i \in Channels : \A c \in shRsp[i] :
           shLease[i] = c /\ shPc[c] = "waiting"

\* both variants: a stub that waited has returned with its answer, and a
\* message of a stub that does not wait was handled without an answer
C34_Witness ==
    /\ \E o \in StubOps : <<o, TRUE>> \in shHandled
    /\ \E o \in StubOps : <<o, FALSE>> \in shHandled
    /\ <<"KVOpDelCursor", shVariant = "legacy">> \in shHandled
    /\ \A c \in ShClients : shPc[c] = "idle"
    /\ shQueue = <<>>

\* a PutRequest of c was rejected as too long and has returned, and nothing
\* is under way: no client is inside a call, the worker waits for a command
\* and none is announced, and the postmaster thread has not started to
\* clean up
AfterRejectedPut(c) ==
    /\ proc[c].pc = "idle"
    /\ proc[c].ret = -1
    /\ NoCallInProgress
    /\ proc[Sup].pc = "s_wait"
    /\ wpc = "wait"
    /\ worker = 0

\* C35: after an oversized PutRequest is rejected the control block is back
\* in its pre-call state: mutex, full and every channel lock are 1 again
\* and no command was announced to the worker.
C35_RejectedPutRestoresControlBlock ==
    \A c \in Clients :
        AfterRejectedPut(c) =>
            /\ mutex = 1
            /\ full = 1
            /\ \A i \in Channels : responseMutex[i] = 1

\* a command has been announced to the worker and not yet taken
Announced == Len(dispatchLog) < Len(writtenLog)

\* C36: a SemWait that a signal interrupted does not let its caller go on
\* as if it held the semaphore: at most one producer is past its wait on
\* `mutex` and before its post of it, a producer writes the command
\* area only when the worker has taken the command before, and the worker
\* reads the command area only when a command was announced.
C36_InterruptedWaitDoesNotProceed ==
    /\ Cardinality(Holders) <= 1
    /\ \A p \in Producers :
           proc[p].pc = "write_func" => areaWriter = NoProducer
    /\ wpc \in {"copy", "post_full"} => Announced

\* cleanup_handler has made its teardown calls
Destroyed == teardown # NoTeardown

\* the last command written is cleanup_handler's TERMINATE, the worker took
\* it last and posted the channel named in it
TerminateAcknowledged ==
    /\ Len(writtenLog) > 0
    /\ writtenLog[Len(writtenLog)].owner = Sup
    /\ writtenLog[Len(writtenLog)].func = "TERMINATE"
    /\ Len(dispatchLog) = Len(writtenLog)
    /\ dispatchLog[Len(dispatchLog)] = writtenLog[Len(writtenLog)]
    /\ Len(signalLog) > 0
    /\ signalLog[Len(signalLog)] = writtenLog[Len(writtenLog)].responseId

\* with a worker process started, nothing is destroyed before TERMINATE
\* was sent and acknowledged, and by then the worker has left its loop
C37_OrderInv ==
    (Destroyed /\ nStarted > 0) =>
        /\ TerminateAcknowledged
        /\ wpc \in {"closing", "exited"}
        /\ kvWorkerPid = 0

\* a step of the worker that waits on or posts a semaphore
WorkerSemStep ==
    /\ wpc' # wpc
    /\ \/ worker' # worker
       \/ full' # full
       \/ responseSync' # responseSync

C37_SemStep == WorkerSemStep => ~Destroyed

C38_RefNeverBelowZero ==
    \A r \in Rels :
        /\ kvTableHash[r].ref >= 0
        /\ kvTableHash[r].ref <= MaxRequests

\* the worker runs the handler of the command it has taken
HandlerRuns ==
    /\ wpc = "dispatch"
    /\ wcmd.func # "TERMINATE"
    /\ wpc' # wpc

\* the iterator entry the command names
IterOf(cmd) == kvIterHash[<<cmd.body.relationId, cmd.body.pid>>]

\* NextResponse reaches its call of Next: the relation and the entry exist
NextHandsOver ==
    /\ wcmd.func = "NEXT"
    /\ kvTableHash[wcmd.body.relationId].found
    /\ IterOf(wcmd) # "absent"

\* GetIterResponse reaches its call of GetIter: the relation exists
GetIterCreates ==
    /\ wcmd.func = "GETITER"
    /\ kvTableHash[wcmd.body.relationId].found

C39_IterStep ==
    HandlerRuns =>
        /\ NextHandsOver => IterOf(wcmd) = "iter"
        /\ GetIterCreates => IterOf(wcmd) # "iter"

\* C39: in kv_shm.c every Next the worker hands to the storage engine uses
\* an iterator that GetIter created and DelIter has not deleted since, and
\* no GetIter overwrites an iterator that is still live.
C39_IteratorLifecycle == [][C39_IterStep]_vars

=============================================================================
